---- MODULE Spec2Model ----
(***************************************************************************)
(* Dropout-risk prediction: the scoring function predictDropoutRisk with   *)
(* its six calculators, and the predict-dropout-risk request handler that  *)
(* selects student rows, scores them and upserts the scores in batches.    *)
(*                                                                         *)
(* Numbers of the scoring function are JavaScript numbers (IEEE-754        *)
(* binary64).  They are modelled exactly: a double is a record            *)
(* [m |-> mantissa, e |-> exponent] standing for m * 2^e, the mantissa a   *)
(* little-endian sequence of 15-bit limbs, and every + and * rounds to 53  *)
(* significant bits, ties to even, as the hardware does.                   *)
(***************************************************************************)
EXTENDS Integers, Sequences, FiniteSets, TLC

(***************************************************************************)
(* Natural numbers of any size, as sequences of limbs.                     *)
(*                                                                         *)
(* CHOOSE v \in {F(t) : t \in {e}} : TRUE is F(e), with e evaluated before  *)
(* F is: an intermediate value is computed once and then used, as a local  *)
(* of the program is.                                                      *)
(***************************************************************************)
LimbBits == 5 * 3

Base == 2 ^ LimbBits

RECURSIVE BNorm(_)
BNorm(s) ==
    IF s = <<>> THEN s
    ELSE IF s[Len(s)] = 0 THEN BNorm(SubSeq(s, 1, Len(s) - 1)) ELSE s

RECURSIVE BAddC(_, _, _)
BAddC(a, b, c) ==
    IF a = <<>> /\ b = <<>> THEN (IF c = 0 THEN <<>> ELSE <<c>>)
    ELSE CHOOSE s \in {<<t % Base>> \o BAddC(IF a = <<>> THEN a ELSE Tail(a),
                                             IF b = <<>> THEN b ELSE Tail(b),
                                             t \div Base) :
                          t \in {(IF a = <<>> THEN 0 ELSE Head(a))
                                 + (IF b = <<>> THEN 0 ELSE Head(b)) + c}} : TRUE

BAdd(a, b) == BAddC(a, b, 0)

RECURSIVE BMulSmallC(_, _, _)
BMulSmallC(a, k, c) ==
    IF a = <<>> THEN (IF c = 0 THEN <<>> ELSE <<c>>)
    ELSE CHOOSE s \in {<<t % Base>> \o BMulSmallC(Tail(a), k, t \div Base) :
                          t \in {Head(a) * k + c}} : TRUE

BMulSmall(a, k) == BNorm(BMulSmallC(a, k, 0))

RECURSIVE BMulR(_, _)
BMulR(a, b) ==
    IF b = <<>> THEN <<>>
    ELSE CHOOSE s \in {BAdd(lo, <<0>> \o hi) :
                          lo \in {BMulSmallC(a, Head(b), 0)},
                          hi \in {BMulR(a, Tail(b))}} : TRUE

BMul(a, b) == BNorm(BMulR(a, b))

RECURSIVE BDivRem(_, _)
BDivRem(a, d) ==
    IF a = <<>> THEN [q |-> <<>>, r |-> 0]
    ELSE CHOOSE dr \in {[q |-> <<(hi.r * Base + Head(a)) \div d>> \o hi.q,
                         r |-> (hi.r * Base + Head(a)) % d] :
                            hi \in {BDivRem(Tail(a), d)}} : TRUE

Zeros(n) == [i \in 1..n |-> 0]

BShl(a, n) ==
    IF a = <<>> \/ n = 0 THEN a
    ELSE Zeros(n \div LimbBits) \o BMulSmallC(a, 2 ^ (n % LimbBits), 0)

BShrPack(a, k, dr) ==
    [q      |-> BNorm(dr.q),
     sticky |-> dr.r # 0 \/ \E j \in 1..k : a[j] # 0]

\* a shifted right by n bits, and whether a one was shifted out.
BShrSticky(a, n) ==
    IF n \div LimbBits >= Len(a) THEN [q |-> <<>>, sticky |-> a # <<>>]
    ELSE BShrPack(a, n \div LimbBits,
                  BDivRem(SubSeq(a, n \div LimbBits + 1, Len(a)),
                          2 ^ (n % LimbBits)))

BShr(a, n) == BShrSticky(a, n).q

BBitLen(a) ==
    IF a = <<>> THEN 0
    ELSE LimbBits * (Len(a) - 1)
         + (CHOOSE k \in 1..LimbBits :
               2 ^ (k - 1) <= a[Len(a)] /\ a[Len(a)] < 2 ^ k)

BOdd(a) == a # <<>> /\ a[1] % 2 = 1

RECURSIVE BLess(_, _)
BLess(a, b) ==
    IF Len(a) # Len(b) THEN Len(a) < Len(b)
    ELSE IF a = <<>> THEN FALSE
    ELSE IF a[Len(a)] # b[Len(b)] THEN a[Len(a)] < b[Len(b)]
    ELSE BLess(BNorm(SubSeq(a, 1, Len(a) - 1)), BNorm(SubSeq(b, 1, Len(b) - 1)))

RECURSIVE BFromInt(_)
BFromInt(n) == IF n = 0 THEN <<>> ELSE <<n % Base>> \o BFromInt(n \div Base)

RECURSIVE BToInt(_)
BToInt(a) == IF a = <<>> THEN 0 ELSE Head(a) + Base * BToInt(Tail(a))

(***************************************************************************)
(* binary64 arithmetic on non-negative finite numbers.                     *)
(***************************************************************************)
MantissaBits == 53

\* s2 is the mantissa with one bit more than is kept, and whether ones
\* lie below that bit: round to nearest, ties to even.
FRoundUp(s2, E) ==
    [m |-> BAddC(BShr(s2.q, 1), <<>>,
                 IF BOdd(s2.q) /\ (s2.sticky \/ (s2.q[1] \div 2) % 2 = 1)
                 THEN 1 ELSE 0),
     e |-> E]

FRoundAt(M, E, sh) ==
    IF sh <= 0 THEN [m |-> M, e |-> E]
    ELSE FRoundUp(BShrSticky(M, sh - 1), E + sh)

\* M * 2^E rounded to MantissaBits significant bits, ties to even.
FRound(M, E) ==
    CHOOSE f \in {FRoundAt(v, E, BBitLen(v) - MantissaBits) : v \in {M}} : TRUE

FMin2(a, b) == IF a < b THEN a ELSE b

FAddAt(x, y, e) == FRound(BAdd(BShl(x.m, x.e - e), BShl(y.m, y.e - e)), e)

\* The operands of an operation are values: both are evaluated before it.
FAdd(x, y) ==
    CHOOSE s \in {FAddAt(a, b, FMin2(a.e, b.e)) : a \in {x}, b \in {y}} : TRUE

FMul(x, y) ==
    CHOOSE p \in {FRound(BMul(a.m, b.m), a.e + b.e) : a \in {x}, b \in {y}} : TRUE

FLessAt(x, y, e) == BLess(BShl(x.m, x.e - e), BShl(y.m, y.e - e))

FLess(x, y) ==
    \E a \in {x}, b \in {y} : FLessAt(a, b, FMin2(a.e, b.e))

FGeq(x, y) == ~FLess(x, y)

FInt(n) == [m |-> BFromInt(n), e |-> 0]

\* The double nearest to n/d: what a decimal literal or a parsed JSON number is.
GuardBits == 75

FRatioOf(dr) ==
    FRound(BAddC(BShl(BNorm(dr.q), 1), <<>>, IF dr.r = 0 THEN 0 ELSE 1),
           -GuardBits - 1)

FRatio(n, d) ==
    CHOOSE f \in {FRatioOf(dr) :
                     dr \in {BDivRem(BShl(BFromInt(n), GuardBits), d)}} : TRUE

\* Math.round of a non-negative double: floor(x + 1/2), exactly.
MathRound(x) ==
    IF x.e >= 0 THEN BToInt(BShl(x.m, x.e))
    ELSE (BToInt(BShr(x.m, -x.e - 1)) + 1) \div 2

\* Math.min(a, b)
MathMin(a, b) == IF FLess(b, a) THEN b ELSE a

(***************************************************************************)
(* Values as the handler receives them.  A DECIMAL(n,2) column is held in  *)
(* hundredths; the handler reads it as the double nearest to that decimal. *)
(* An optional column is [kind |-> "undefined"] (the property is absent),  *)
(* [kind |-> "null"] (the store's SQL NULL) or [kind |-> "number", val].   *)
(* Attendance, income and distance are only compared with integers, which  *)
(* are doubles themselves, so the comparison on the decimal is the         *)
(* comparison on the double; income and distance are held in whole units.  *)
(***************************************************************************)
Undefined == [kind |-> "undefined", val |-> 0]

Null == [kind |-> "null", val |-> 0]

Number(n) == [kind |-> "number", val |-> n]

\* ToNumber of an optional value that is not undefined: null is 0.
ToNumber(v) == IF v.kind = "number" THEN v.val ELSE 0

\* ToBoolean of an optional numeric value.
Truthy(v) == v.kind = "number" /\ v.val # 0

JsonNumber(hundredths) == FRatio(hundredths, 100)

Lit(n, d) == FRatio(n, d)

\* The literals of the scoring function, each the double nearest to its decimal.
c0_1 == Lit(1, 10)

c0_10 == Lit(10, 100)

c0_15 == Lit(15, 100)

c0_2 == Lit(2, 10)

c0_20 == Lit(20, 100)

c0_25 == Lit(25, 100)

c0_3 == Lit(3, 10)

c0_4 == Lit(4, 10)

c0_5 == Lit(5, 10)

c0_6 == Lit(6, 10)

c0_7 == Lit(7, 10)

c0_8 == Lit(8, 10)

c0_9 == Lit(9, 10)

c0 == FInt(0)

c1 == FInt(1)

c5 == FInt(5)

c6 == FInt(6)

c7 == FInt(7)

c8 == FInt(8)

c100 == FInt(100)

\* The weights with the attendance weight mistyped as 2.5.
weightsMistyped ==
    [attendance   |-> Lit(25, 10),
     academic     |-> c0_20,
     financial    |-> c0_15,
     behavioral   |-> c0_15,
     engagement   |-> c0_10,
     demographics |-> c0_15]

weights ==
    [attendance   |-> c0_25,
     academic     |-> c0_20,
     financial    |-> c0_15,
     behavioral   |-> c0_15,
     engagement   |-> c0_10,
     demographics |-> c0_15]

\* The attendance bands with their lower bounds exclusive.
calculateAttendanceRiskExclusive(attendance) ==
    IF attendance > 90 * 100 THEN c0_1
    ELSE IF attendance > 80 * 100 THEN c0_3
    ELSE IF attendance > 70 * 100 THEN c0_5
    ELSE IF attendance > 60 * 100 THEN c0_7
    ELSE c0_9

calculateAttendanceRisk(attendance) ==
    IF attendance >= 90 * 100 THEN c0_1
    ELSE IF attendance >= 80 * 100 THEN c0_3
    ELSE IF attendance >= 70 * 100 THEN c0_5
    ELSE IF attendance >= 60 * 100 THEN c0_7
    ELSE c0_9

\* x / 2: halving a double is exact.
FHalf(x) == [m |-> x.m, e |-> x.e - 1]

\* The grade bands with their lower bounds exclusive.
gradeOfExclusive(avgGpa) ==
    IF FLess(c8, avgGpa) THEN c0_1
    ELSE IF FLess(c7, avgGpa) THEN c0_2
    ELSE IF FLess(c6, avgGpa) THEN c0_4
    ELSE IF FLess(c5, avgGpa) THEN c0_6
    ELSE c0_8

gradeOf(avgGpa) ==
    IF FGeq(avgGpa, c8) THEN c0_1
    ELSE IF FGeq(avgGpa, c7) THEN c0_2
    ELSE IF FGeq(avgGpa, c6) THEN c0_4
    ELSE IF FGeq(avgGpa, c5) THEN c0_6
    ELSE c0_8

calculateAcademicRisk(cgpa, sgpa) ==
    gradeOf(FHalf(FAdd(JsonNumber(cgpa), JsonNumber(sgpa))))

\* risk += t under a condition is risk + (t or 0): adding 0 changes no double.
incomeTerm(familyIncome) ==
    IF familyIncome.kind # "undefined"
    THEN IF ToNumber(familyIncome) < 200000 THEN c0_3
         ELSE IF ToNumber(familyIncome) < 500000 THEN c0_1
         ELSE c0
    ELSE c0

\* The sum of the three terms without the clamp.
calculateFinancialRiskUnclamped(feeDefault, scholarship, familyIncome) ==
    FAdd(FAdd(FAdd(c0, IF feeDefault THEN c0_6 ELSE c0),
              IF ~scholarship THEN c0_2 ELSE c0),
         incomeTerm(familyIncome))

calculateFinancialRisk(feeDefault, scholarship, familyIncome) ==
    MathMin(FAdd(FAdd(FAdd(c0, IF feeDefault THEN c0_6 ELSE c0),
                      IF ~scholarship THEN c0_2 ELSE c0),
                 incomeTerm(familyIncome)),
            c1)

\* A calculator that sees no risk at all in a clean record.
calculateBehavioralRiskFromZero(disciplinaryActions) ==
    IF disciplinaryActions = 0 THEN c0
    ELSE IF disciplinaryActions = 1 THEN c0_4
    ELSE IF disciplinaryActions = 2 THEN c0_6
    ELSE c0_8

calculateBehavioralRisk(disciplinaryActions) ==
    IF disciplinaryActions = 0 THEN c0_1
    ELSE IF disciplinaryActions = 1 THEN c0_4
    ELSE IF disciplinaryActions = 2 THEN c0_6
    ELSE c0_8

calculateEngagementRisk(extracurriculars) ==
    IF extracurriculars >= 3 THEN c0_1
    ELSE IF extracurriculars >= 2 THEN c0_2
    ELSE IF extracurriculars >= 1 THEN c0_3
    ELSE c0_5

calculateDemographicRisk(student) ==
    MathMin(FAdd(FAdd(FAdd(FAdd(c0,
                IF Truthy(student.distance_from_home)
                   /\ student.distance_from_home.val > 500 THEN c0_2 ELSE c0),
                IF student.hostel_accommodation THEN c0_1 ELSE c0),
                IF student.previous_education_gap THEN c0_3 ELSE c0),
                IF student.semester > 6 THEN c0_1 ELSE c0),
            c1)

\* Math.round(x * 100) / 100, held in hundredths: k stands for the double
\* nearest to k/100, and for the DECIMAL(3,2) the store keeps.
Round2(x) == MathRound(FMul(x, c100))

riskLevelOf(riskScore) ==
    IF FGeq(riskScore, c0_7) THEN "high"
    ELSE IF FGeq(riskScore, c0_4) THEN "medium"
    ELSE "low"

\* The weighted sum of the five reported risks alone.
weightedScoreOfFive(att, aca, fin, beh, eng, dem) ==
    FAdd(FAdd(FAdd(FAdd(FMul(att, weights.attendance),
                        FMul(aca, weights.academic)),
                   FMul(fin, weights.financial)),
              FMul(beh, weights.behavioral)),
         FMul(eng, weights.engagement))

weightedScore(att, aca, fin, beh, eng, dem) ==
    FAdd(FAdd(FAdd(FAdd(FAdd(FMul(att, weights.attendance),
                             FMul(aca, weights.academic)),
                        FMul(fin, weights.financial)),
                   FMul(beh, weights.behavioral)),
              FMul(eng, weights.engagement)),
         FMul(dem, weights.demographics))

predictionResult(riskScore, r) ==
    [risk_score |-> Round2(riskScore),
     risk_level |-> riskLevelOf(riskScore),
     prediction_factors |->
        [attendance_impact |-> Round2(r.attendance),
         academic_impact   |-> Round2(r.academic),
         financial_impact  |-> Round2(r.financial),
         behavioral_impact |-> Round2(r.behavioral),
         engagement_impact |-> Round2(r.engagement)]]

\* const riskScore = ...: the weighted sum is computed, then used twice.
scoreOf(r) ==
    CHOOSE p \in {predictionResult(riskScore, r) :
                     riskScore \in {weightedScore(r.attendance, r.academic,
                                        r.financial, r.behavioral, r.engagement,
                                        r.demographic)}} : TRUE

calculatorValues(student) ==
    [attendance  |-> calculateAttendanceRisk(student.attendance_percentage),
     academic    |-> calculateAcademicRisk(student.cgpa, student.sgpa),
     financial   |-> calculateFinancialRisk(student.fee_default,
                         student.scholarship, student.family_income),
     behavioral  |-> calculateBehavioralRisk(student.disciplinary_actions),
     engagement  |-> calculateEngagementRisk(student.extracurriculars),
     demographic |-> calculateDemographicRisk(student)]

\* The six calculators run first; the score is computed from their values.
predictDropoutRisk(student) ==
    CHOOSE p \in {scoreOf(r) : r \in {calculatorValues(student)}} : TRUE

(***************************************************************************)
(* The state.                                                              *)
(*   arg, ret, risks   a call of predictDropoutRisk: the Student passed,   *)
(*                     the PredictionResult returned and the six           *)
(*                     calculator values (<<>> before the call returns)    *)
(*   table             public.students, id -> row; of a row only the       *)
(*                     columns the handler reads or writes are kept        *)
(*   pc                per request, where the handler stands: "idle",      *)
(*                     "select" (awaiting the select), "upsert" (awaiting  *)
(*                     the upsert of the batch at i), "done" (responded)   *)
(*   request           the JSON body and method of the request             *)
(*   students, predictions, i, updatedCount   the handler's locals         *)
(*   response          the Response returned                               *)
(*   calls             the calls the request has issued to the store       *)
(*   upload            the running call of handleFileUpload of the Upload  *)
(*                     page: where it stands ("idle", "insert" awaiting    *)
(*                     the insert of the batch at i, "invoke" awaiting     *)
(*                     the prediction function, "end" returned), its       *)
(*                     locals and the calls it has issued                  *)
(*   uploadStatus      the page's uploadStatus state                       *)
(*   uploads           the number of files handed to handleFileUpload      *)
(***************************************************************************)
VARIABLES arg, ret, risks, table, pc, request, students, predictions, i,
          updatedCount, response, calls, upload, uploadStatus, uploads

predictVars == <<arg, ret, risks>>

handlerVars == <<table, pc, request, students, predictions, i, updatedCount,
                 response, calls>>

uploadVars == <<upload, uploadStatus, uploads>>

vars == <<arg, ret, risks, table, pc, request, students, predictions, i,
          updatedCount, response, calls, upload, uploadStatus, uploads>>

Student(a, c, s, fee, d, sch, x, sem, inc, dist, h, g) ==
    [attendance_percentage  |-> a,
     cgpa                   |-> c,
     sgpa                   |-> s,
     fee_default            |-> fee,
     disciplinary_actions   |-> d,
     scholarship            |-> sch,
     extracurriculars       |-> x,
     semester               |-> sem,
     family_income          |-> inc,
     distance_from_home     |-> dist,
     hostel_accommodation   |-> h,
     previous_education_gap |-> g]

(***************************************************************************)
(* predictDropoutRisk called on one Student.                               *)
(***************************************************************************)
MaxCount == 3

AttendanceValues == {5999, 6000, 7000, 8999, 9000}

GpaPairs == {<<795, 805>>, <<720, 780>>, <<590, 610>>, <<500, 500>>, <<499, 500>>}

IncomeValues ==
    {Undefined, Null, Number(199999), Number(200000), Number(499999),
     Number(500000)}

DistanceValues == {Undefined, Null, Number(0), Number(500), Number(501)}

SemesterValues == {1, 6, 7}

StudentInputs ==
    {Student(a, g[1], g[2], fee, d, sch, x, sem, inc, dist, FALSE, gap) :
        a \in AttendanceValues, g \in GpaPairs, fee \in BOOLEAN,
        d \in {0, MaxCount}, sch \in BOOLEAN, x \in {0, MaxCount},
        sem \in {6, 7}, inc \in IncomeValues, dist \in {Null},
        gap \in BOOLEAN}
    \cup
    {Student(a, 720, 780, FALSE, d, TRUE, x, sem, Undefined, dist, h, gap) :
        a \in {0, 6820, 8550, 10000}, d \in 0..MaxCount, x \in 0..MaxCount,
        sem \in SemesterValues, dist \in DistanceValues, h \in BOOLEAN,
        gap \in {FALSE}}

(***************************************************************************)
(* parseCSVContent.  A file is the sequence of its lines, and a line the   *)
(* sequence of its cells as split(',') and trim() leave them.  A cell is a *)
(* text that is no numeral (the empty text included), or the decimal       *)
(* numeral of h hundredths.  A line of white space alone is one empty      *)
(* cell.                                                                   *)
(***************************************************************************)
Text(t) == [kind |-> "text", text |-> t, h |-> 0]

Numeral(h) == [kind |-> "numeral", text |-> "", h |-> h]

BlankLine == <<Text("")>>

\* values[index] as a condition: the string is not empty.
NonEmpty(v) == v.kind = "numeral" \/ v.text # ""

\* toLowerCase() on the texts that hold a capital letter.
toLowerCase(t) ==
    CASE t = "Name" -> "name"
      [] t = "Email" -> "email"
      [] t = "Student_ID" -> "student_id"
      [] t = "StudentID" -> "studentid"
      [] t = "Department" -> "department"
      [] t = "Semester" -> "semester"
      [] t = "Gender" -> "gender"
      [] t = "Attendance_Percentage" -> "attendance_percentage"
      [] t = "CGPA" -> "cgpa"
      [] t = "SGPA" -> "sgpa"
      [] t = "Fee_Default" -> "fee_default"
      [] t = "Disciplinary_Actions" -> "disciplinary_actions"
      [] t = "Scholarship" -> "scholarship"
      [] t = "Extracurriculars" -> "extracurriculars"
      [] t = "Family_Income" -> "family_income"
      [] t = "Distance_From_Home" -> "distance_from_home"
      [] t = "Hostel_Accommodation" -> "hostel_accommodation"
      [] t = "Previous_Education_Gap" -> "previous_education_gap"
      [] t = "TRUE" -> "true"
      [] t = "Yes" -> "yes"
      [] t = "Male" -> "male"
      [] t = "Female" -> "female"
      [] OTHER -> t

headerMap ==
    "name" :> "name" @@
    "email" :> "email" @@
    "student_id" :> "student_id" @@
    "studentid" :> "student_id" @@
    "department" :> "department" @@
    "semester" :> "semester" @@
    "gender" :> "gender" @@
    "attendance" :> "attendance_percentage" @@
    "attendance_percentage" :> "attendance_percentage" @@
    "cgpa" :> "cgpa" @@
    "sgpa" :> "sgpa" @@
    "fee_default" :> "fee_default" @@
    "feedefault" :> "fee_default" @@
    "disciplinary_actions" :> "disciplinary_actions" @@
    "disciplinaryactions" :> "disciplinary_actions" @@
    "scholarship" :> "scholarship" @@
    "extracurriculars" :> "extracurriculars" @@
    "family_income" :> "family_income" @@
    "familyincome" :> "family_income" @@
    "distance_from_home" :> "distance_from_home" @@
    "distancefromhome" :> "distance_from_home" @@
    "hostel_accommodation" :> "hostel_accommodation" @@
    "hostelaccommodation" :> "hostel_accommodation" @@
    "previous_education_gap" :> "previous_education_gap" @@
    "previouseducationgap" :> "previous_education_gap"

\* The fields headerMap maps to.
MappedFields == {headerMap[h] : h \in DOMAIN headerMap}

\* const mappedField = headerMap[header]: "" stands for undefined.
mappedField(header) ==
    IF header \in DOMAIN headerMap THEN headerMap[header] ELSE ""

\* parseInt(value) || 0
parseInt(value) == IF value.kind = "numeral" THEN value.h \div 100 ELSE 0

\* parseFloat(value) || 0, in hundredths.
parseFloat(value) == IF value.kind = "numeral" THEN value.h ELSE 0

\* The type conversions of a non-empty cell.  family_income and
\* distance_from_home are held in whole units, as the predictor's records
\* hold them.
converted(field, value) ==
    IF field \in {"semester", "disciplinary_actions", "extracurriculars"}
    THEN parseInt(value)
    ELSE IF field \in {"attendance_percentage", "cgpa", "sgpa"}
    THEN parseFloat(value)
    ELSE IF field \in {"family_income", "distance_from_home"}
    THEN Number(parseFloat(value) \div 100)
    ELSE IF field \in {"fee_default", "scholarship", "hostel_accommodation",
                       "previous_education_gap"}
    THEN \/ toLowerCase(value.text) \in {"true", "yes"}
         \/ value = Numeral(100)
    ELSE IF field = "gender"
    THEN IF toLowerCase(value.text) \in {"male", "female", "other"}
         THEN Text(toLowerCase(value.text))
         ELSE Text("other")
    ELSE value

\* headers.forEach(...): a field holds the conversion of the last
\* non-empty cell under a header mapped to it, and the object has no such
\* property if there is none.
studentOf(headers, values) ==
    LET cells(field) == {x \in DOMAIN headers :
                            /\ mappedField(headers[x]) = field
                            /\ x \in DOMAIN values
                            /\ NonEmpty(values[x])}
    IN  [field \in {f \in MappedFields : cells(f) # {}} |->
            converted(field,
                values[CHOOSE x \in cells(field) : \A y \in cells(field) : y <= x])]

\* student.name && student.email && student.student_id && student.department
hasRequiredFields(student) ==
    /\ "name" \in DOMAIN student
    /\ "email" \in DOMAIN student
    /\ "student_id" \in DOMAIN student
    /\ "department" \in DOMAIN student

\* lines[0].split(',').map(h => h.trim().toLowerCase())
headersOf(line) == [x \in DOMAIN line |-> toLowerCase(line[x].text)]

\* The loop over the data rows.
studentsOf(headers, rows) ==
    LET parsedRows == [k \in DOMAIN rows |->
                          [values |-> rows[k],
                           student |-> studentOf(headers, rows[k])]]
        kept(row) == /\ Len(row.values) >= Len(headers)
                     /\ hasRequiredFields(row.student)
    IN  CHOOSE emitted \in
            {[k \in DOMAIN keptRows |-> keptRows[k].student] :
                keptRows \in {SelectSeq(parsedRows, kept)}} : TRUE

\* A parse that gives up at the first row it cannot use.
parseCSVContentToFirstDrop(content) ==
    LET lines == SelectSeq(content, LAMBDA line : line # BlankLine)
        usable(values) ==
            /\ Len(values) >= Len(headersOf(lines[1]))
            /\ hasRequiredFields(studentOf(headersOf(lines[1]), values))
        firstDrop ==
            IF \A k \in 2..Len(lines) : usable(lines[k]) THEN Len(lines) + 1
            ELSE CHOOSE k \in 2..Len(lines) :
                     /\ ~usable(lines[k])
                     /\ \A j \in 2..(k - 1) : usable(lines[j])
    IN  IF Len(lines) < 2 THEN [throws |-> TRUE, students |-> <<>>]
        ELSE CHOOSE parsed \in
                 {[throws |-> FALSE, students |-> studentsOf(headers, rows)] :
                     headers \in {headersOf(lines[1])},
                     rows \in {SubSeq(lines, 2, firstDrop - 1)}} : TRUE

\* parseCSVContent(content): the students, or the Error thrown for a file
\* of fewer than two lines that are not blank.
parseCSVContent(content) ==
    LET lines == SelectSeq(content, LAMBDA line : line # BlankLine)
    IN  IF Len(lines) < 2 THEN [throws |-> TRUE, students |-> <<>>]
        ELSE CHOOSE parsed \in
                 {[throws |-> FALSE, students |-> studentsOf(headers, rows)] :
                     headers \in {headersOf(lines[1])},
                     rows \in {SubSeq(lines, 2, Len(lines))}} : TRUE

(***************************************************************************)
(* The record store: table public.students, and the three operations the  *)
(* handler calls on it.  Each is one statement of the database, so it      *)
(* takes effect at once or not at all.                                     *)
(***************************************************************************)
NumStudents == 101

batchSize == 50

Ids == 1..NumStudents

Str(t) == [kind |-> "string", val |-> t]

Obj(o) == [kind |-> "object", val |-> o]

\* The raw attributes rows are created with.  The store delivers a column
\* that was never supplied as null.
Profiles ==
    <<Student(8550, 720, 780, FALSE, 0, TRUE, 3, 5, Null, Null, FALSE, FALSE),
      Student(6820, 590, 610, TRUE, 2, FALSE, 0, 7, Null, Null, FALSE, FALSE),
      Student(9210, 850, 870, FALSE, 0, TRUE, 2, 3, Number(800000), Number(120),
              TRUE, FALSE),
      Student(5500, 450, 480, TRUE, 3, FALSE, 0, 8, Number(150000), Number(750),
              TRUE, TRUE),
      Student(7500, 650, 660, FALSE, 1, FALSE, 1, 4, Number(300000), Number(500),
              FALSE, TRUE)>>

AttendanceStep == 50

\* Attendance percentages (in hundredths) over [0,100]: a regular grid, and
\* the values at and next to each bound of a band.
AttendanceGrid ==
    {k * AttendanceStep : k \in 0..((100 * 100) \div AttendanceStep)}
    \cup {b * 100 + d : b \in {60, 70, 80, 90}, d \in {-1, 0, 1}}
    \cup {1, 100 * 100 - 1, 100 * 100}

\* The two records of the documented scenarios, passed with family_income
\* and distance_from_home absent (undefined) or as the store delivers a
\* column that was not supplied (null).
ScenarioInputs ==
    {[Profiles[k] EXCEPT !.family_income = inc, !.distance_from_home = dist] :
        k \in {1, 2}, inc \in {Undefined, Null}, dist \in {Undefined, Null}}

\* The valid record on which every calculator is at its highest, and the one
\* on which every calculator is at its lowest.
ExtremeInputs ==
    {Student(0, 0, 0, TRUE, MaxCount, FALSE, 0, 7, Number(0), Number(501),
             TRUE, TRUE),
     Student(100 * 100, 10 * 100, 10 * 100, FALSE, 0, TRUE, MaxCount, 1,
             Number(500000), Number(0), FALSE, FALSE)}

\* A row as ingestion creates it: the score columns are null.
NewRow(id, st) ==
    [id                     |-> id,
     student_id             |-> IF "student_id" \in DOMAIN st THEN st.student_id
                                ELSE Text("ID" \o ToString(id)),
     attendance_percentage  |-> st.attendance_percentage,
     cgpa                   |-> st.cgpa,
     sgpa                   |-> st.sgpa,
     fee_default            |-> st.fee_default,
     disciplinary_actions   |-> st.disciplinary_actions,
     scholarship            |-> st.scholarship,
     extracurriculars       |-> st.extracurriculars,
     semester               |-> st.semester,
     family_income          |-> st.family_income,
     distance_from_home     |-> st.distance_from_home,
     hostel_accommodation   |-> st.hostel_accommodation,
     previous_education_gap |-> st.previous_education_gap,
     risk_score             |-> Null,
     risk_level             |-> Null,
     prediction_factors     |-> Null]

InitialTable ==
    [id \in Ids |-> NewRow(id, Profiles[((id - 1) % Len(Profiles)) + 1])]

AllRows(tbl) == [k \in 1..Len(tbl) |-> tbl[k]]

ScoreIsNull(row) == row.risk_score = Null

\* A select without the filter on risk_score.
selectWithoutFilter(tbl) == AllRows(tbl)

\* .from('students').select('*').is('risk_score', null)
selectWhereScoreNull(tbl) == SelectSeq(AllRows(tbl), ScoreIsNull)

\* .from('students').select('*').in('id', ids)
selectWhereIdIn(tbl, ids) ==
    LET Named(row) == \E j \in DOMAIN ids : ids[j] = row.id
    IN  SelectSeq(AllRows(tbl), Named)

\* An upsert whose updates carry no risk_level.
upsertWithoutLevel(tbl, updates) ==
    [id \in DOMAIN tbl |->
        IF \E j \in DOMAIN updates : updates[j].id = id
        THEN LET u == updates[CHOOSE j \in DOMAIN updates : updates[j].id = id]
             IN  [tbl[id] EXCEPT !.risk_score = Number(u.risk_score),
                                 !.prediction_factors = Obj(u.prediction_factors)]
        ELSE tbl[id]]

\* An upsert that leaves a row that has a score as it is.
upsertUnscoredOnly(tbl, updates) ==
    [id \in DOMAIN tbl |->
        IF ScoreIsNull(tbl[id]) /\ \E j \in DOMAIN updates : updates[j].id = id
        THEN LET u == updates[CHOOSE j \in DOMAIN updates : updates[j].id = id]
             IN  [tbl[id] EXCEPT !.risk_score = Number(u.risk_score),
                                 !.risk_level = Str(u.risk_level),
                                 !.prediction_factors = Obj(u.prediction_factors)]
        ELSE tbl[id]]

\* An upsert that replaces the row: the columns the updates do not carry
\* fall back to their defaults.
upsertReplacingRow(tbl, updates) ==
    [id \in DOMAIN tbl |->
        IF \E j \in DOMAIN updates : updates[j].id = id
        THEN LET u == updates[CHOOSE j \in DOMAIN updates : updates[j].id = id]
             IN  [tbl[id] EXCEPT !.fee_default = FALSE,
                                 !.disciplinary_actions = 0,
                                 !.scholarship = FALSE,
                                 !.extracurriculars = 0,
                                 !.family_income = Null,
                                 !.distance_from_home = Null,
                                 !.hostel_accommodation = FALSE,
                                 !.previous_education_gap = FALSE,
                                 !.risk_score = Number(u.risk_score),
                                 !.risk_level = Str(u.risk_level),
                                 !.prediction_factors = Obj(u.prediction_factors)]
        ELSE tbl[id]]

\* .from('students').upsert(updates): every update names an existing row,
\* whose three score columns are overwritten.
upsert(tbl, updates) ==
    [id \in DOMAIN tbl |->
        IF \E j \in DOMAIN updates : updates[j].id = id
        THEN LET u == updates[CHOOSE j \in DOMAIN updates : updates[j].id = id]
             IN  [tbl[id] EXCEPT !.risk_score = Number(u.risk_score),
                                 !.risk_level = Str(u.risk_level),
                                 !.prediction_factors = Obj(u.prediction_factors)]
        ELSE tbl[id]]

(***************************************************************************)
(* The request handler (serve).                                            *)
(***************************************************************************)
Runs == {"r1"}

Bool(b) == [kind |-> "boolean", val |-> b]

Array(q) == [kind |-> "array", val |-> q]

IdRange(a, b) == [k \in 1..(b - a + 1) |-> a + k - 1]

\* The studentIds a request may carry; id 0 names no row.
StudentIdLists ==
    {<<>>, <<0>>, <<2, 0>>, IdRange(0, batchSize + 1)}

Requests ==
    {[method |-> "OPTIONS", processNewStudents |-> Undefined,
      studentIds |-> Undefined]}
    \cup
    {[method |-> "POST", processNewStudents |-> p, studentIds |-> q] :
        p \in {Undefined, Bool(FALSE), Bool(TRUE)},
        q \in {Undefined} \cup {Array(l) : l \in StudentIdLists}}

\* ToBoolean of a request field.
IsTruthy(v) ==
    \/ v.kind = "boolean" /\ v.val
    \/ v.kind = "number" /\ v.val # 0
    \/ v.kind = "array"
    \/ v.kind = "object"

(***************************************************************************)
(* What the pages show of a row's score.  A cell is either the percentage  *)
(* Math.round(risk_score * 100) or the text shown for a row without one.   *)
(***************************************************************************)
Percent(riskScore) == [shown |-> TRUE, percent |-> Round2(Lit(riskScore.val, 100))]

NotShown == [shown |-> FALSE, percent |-> 0]

\* riskScore={student.risk_score || undefined}
riskScoreProp(student) ==
    IF IsTruthy(student.risk_score) THEN student.risk_score ELSE Undefined

\* RiskBadge: riskScore ? `${label} (${Math.round(riskScore * 100)}%)` : label
displayText(riskScore) ==
    IF IsTruthy(riskScore) THEN Percent(riskScore) ELSE NotShown

\* getRiskExplanation: 'Risk analysis not available' unless the row has
\* both a truthy risk_score and prediction_factors.
getRiskExplanation(student) ==
    IF ~IsTruthy(student.risk_score) \/ ~IsTruthy(student.prediction_factors)
    THEN NotShown
    ELSE Percent(student.risk_score)

\* exportToCSV: student.risk_score ? Math.round(risk_score * 100) + '%' : 'N/A'
exportToCSV(student) ==
    IF IsTruthy(student.risk_score) THEN Percent(student.risk_score) ELSE NotShown

NoResponse == [status |-> 0, kind |-> "none"]

ErrorResponse(status) == [status |-> status, kind |-> "error"]

SummaryResponse(processed, total) ==
    [status |-> 200, kind |-> "summary", processedCount |-> processed,
     totalCount |-> total]

SelectCall == [op |-> "select", from |-> 0, ids |-> {}, outcome |-> "pending"]

UpsertCall(from, updates) ==
    [op |-> "upsert", from |-> from,
     ids |-> {updates[j].id : j \in DOMAIN updates}, outcome |-> "pending"]

\* The last call of a log, answered.
Answered(log, outcome) == [log EXCEPT ![Len(log)].outcome = outcome]

MinOf(a, b) == IF a < b THEN a ELSE b

\* A slice that takes one element too many.
batchAtInclusive(preds, from) ==
    SubSeq(preds, from + 1, MinOf(from + batchSize + 1, Len(preds)))

\* predictions.slice(from, from + batchSize)
batchAt(preds, from) == SubSeq(preds, from + 1, MinOf(from + batchSize, Len(preds)))

\* batch.map(({ id, prediction }) => ({ id, risk_score, ... }))
updatesOf(batch) ==
    [j \in DOMAIN batch |->
        [id                 |-> batch[j].id,
         risk_score         |-> batch[j].prediction.risk_score,
         risk_level         |-> batch[j].prediction.risk_level,
         prediction_factors |-> batch[j].prediction.prediction_factors]]

\* The page's uploadStatus: progress is a number, the counts are optional.
UploadStatus(status, progress, processed, total) ==
    [status |-> status, progress |-> progress, processedCount |-> processed,
     totalCount |-> total]

\* useState({ status: 'idle', message: '', progress: 0 })
IdleStatus == UploadStatus("idle", c0, Undefined, Undefined)

\* handleFileUpload is not running.  statuses are the arguments of the
\* calls of setUploadStatus the running function has made, in order.
NoUpload ==
    [pc |-> "idle", content |-> <<>>, students |-> <<>>, i |-> 0,
     processedCount |-> 0, calls |-> <<>>, statuses |-> <<>>]

InitUploadVars ==
    /\ upload = NoUpload
    /\ uploadStatus = IdleStatus
    /\ uploads = 0

InitHandler ==
    /\ InitUploadVars
    /\ table = InitialTable
    /\ pc = [r \in Runs |-> "idle"]
    /\ request = [r \in Runs |-> <<>>]
    /\ students = [r \in Runs |-> <<>>]
    /\ predictions = [r \in Runs |-> <<>>]
    /\ i = [r \in Runs |-> 0]
    /\ updatedCount = [r \in Runs |-> 0]
    /\ response = [r \in Runs |-> NoResponse]
    /\ calls = [r \in Runs |-> <<>>]

\* A handler that takes any studentIds array, the empty one too, as a list.
selectionModeAnyList(req) ==
    IF IsTruthy(req.processNewStudents) THEN "new"
    ELSE IF IsTruthy(req.studentIds) THEN "ids"
    ELSE "none"

\* A handler that processes the unscored records when no mode is given.
selectionModeDefaultNew(req) ==
    IF IsTruthy(req.processNewStudents) THEN "new"
    ELSE IF IsTruthy(req.studentIds) /\ Len(req.studentIds.val) > 0 THEN "ids"
    ELSE "new"

\* if (processNewStudents) ... else if (studentIds && studentIds.length > 0)
\* ... else 400.
selectionMode(req) ==
    IF IsTruthy(req.processNewStudents) THEN "new"
    ELSE IF IsTruthy(req.studentIds) /\ Len(req.studentIds.val) > 0 THEN "ids"
    ELSE "none"

\* The request arrives; the handler runs to its first await or to its return.
Start(r, req) ==
    /\ pc[r] = "idle"
    /\ request' = [request EXCEPT ![r] = <<req>>]
    /\ IF req.method = "OPTIONS"
       THEN /\ response' = [response EXCEPT ![r] = [status |-> 200, kind |-> "empty"]]
            /\ pc' = [pc EXCEPT ![r] = "done"]
            /\ UNCHANGED calls
       ELSE IF selectionMode(req) # "none"
       THEN /\ calls' = [calls EXCEPT ![r] = <<SelectCall>>]
            /\ pc' = [pc EXCEPT ![r] = "select"]
            /\ UNCHANGED response
       ELSE /\ response' = [response EXCEPT ![r] = ErrorResponse(400)]
            /\ pc' = [pc EXCEPT ![r] = "done"]
            /\ UNCHANGED calls
    /\ UNCHANGED <<table, students, predictions, i, updatedCount, predictVars,
                   uploadVars>>

\* What the pending select of request r matches now.
selected(r) ==
    IF selectionMode(request[r][1]) = "new"
    THEN selectWhereScoreNull(table)
    ELSE selectWhereIdIn(table, request[r][1].studentIds.val)

\* for (const student of students) predictions.push({ id, prediction })
\* A loop that scores the first element again for every element.
predictionsOfFirst(data) ==
    [k \in DOMAIN data |->
        [id |-> data[k].id, prediction |-> predictDropoutRisk(data[1])]]

predictionsOf(data) ==
    [k \in DOMAIN data |->
        [id |-> data[k].id, prediction |-> predictDropoutRisk(data[k])]]

\* Reading a property of a null element throws a TypeError.
predictionThrows(data) == \E k \in DOMAIN data : data[k] = Null

\* The elements the loop has scored when it throws, or all of them.
scoredOf(data) ==
    IF predictionThrows(data)
    THEN SubSeq(data, 1, (CHOOSE k \in DOMAIN data :
                            data[k] = Null /\ \A j \in 1..(k - 1) : data[j] # Null) - 1)
    ELSE data

\* A total that counts the ids the request names.
totalCountRequested(req, data) ==
    IF selectionMode(req) = "ids" THEN Len(req.studentIds.val) ELSE Len(data)

\* totalCount: students.length
totalCountOf(req, data) == Len(data)

\* A handler that does not look at the select's error.
throwsInLoopOnly(error, data) == predictionThrows(data)

\* if (error) throw error, and what the prediction loop throws: the catch
\* answers 500.
throws(error, data) == error \/ predictionThrows(data)

\* The select is answered with { data, error }; the handler runs on to the
\* first upsert, or to its return.
HandleSelect(r, error, data) ==
    /\ pc[r] = "select"
    /\ IF throws(error, data)
       THEN /\ calls' = [calls EXCEPT ![r] = Answered(@, IF error THEN "error" ELSE "ok")]
            /\ response' = [response EXCEPT ![r] = ErrorResponse(500)]
            /\ pc' = [pc EXCEPT ![r] = "done"]
            /\ students' = [students EXCEPT ![r] = IF error THEN @ ELSE data]
            /\ predictions' = [predictions EXCEPT ![r] =
                                  IF error THEN @ ELSE predictionsOf(scoredOf(data))]
       ELSE LET preds == predictionsOf(data)
            IN  /\ students' = [students EXCEPT ![r] = data]
                /\ predictions' = [predictions EXCEPT ![r] = preds]
                /\ IF Len(preds) > 0
                   THEN /\ calls' = [calls EXCEPT ![r] =
                               Append(Answered(@, IF error THEN "error" ELSE "ok"),
                                      UpsertCall(0, updatesOf(batchAt(preds, 0))))]
                        /\ pc' = [pc EXCEPT ![r] = "upsert"]
                        /\ UNCHANGED response
                   ELSE /\ calls' = [calls EXCEPT ![r] =
                               Answered(@, IF error THEN "error" ELSE "ok")]
                        /\ response' = [response EXCEPT ![r] =
                               SummaryResponse(0, totalCountOf(request[r][1], data))]
                        /\ pc' = [pc EXCEPT ![r] = "done"]
    /\ UNCHANGED <<table, i, updatedCount, request, predictVars, uploadVars>>

SelectFails(r) == HandleSelect(r, TRUE, <<>>)

SelectReturns(r) == HandleSelect(r, FALSE, selected(r))

\* The store answers a select with an element that is no row.
SelectReturnsMalformed(r) ==
    /\ pc[r] = "select"
    /\ \E k \in DOMAIN selected(r) :
          k \in {1, Len(selected(r))}
          /\ HandleSelect(r, FALSE, [selected(r) EXCEPT ![k] = Null])

\* A store that undoes the run's earlier batches when a batch fails.
storeAfterUpsertRollingBack(tbl, updates, error) ==
    IF error THEN InitialTable ELSE upsert(tbl, updates)

\* The table after an upsert is answered: a failed statement wrote nothing.
storeAfterUpsert(tbl, updates, error) ==
    IF error THEN tbl ELSE upsert(tbl, updates)

\* updatedCount += batch.length, whatever the upsert answered.
countedAfterAny(count, batch, error) == count + Len(batch)

\* if (batchError) console.error(...) else updatedCount += batch.length
countedAfter(count, batch, error) ==
    IF error THEN count ELSE count + Len(batch)

\* A handler that throws batchError as it throws the select's error: the
\* catch answers 500 and no later batch is attempted.
HandleUpsertThrowing(r, error) ==
    /\ pc[r] = "upsert"
    /\ table' = storeAfterUpsert(table, updatesOf(batchAt(predictions[r], i[r])), error)
    /\ updatedCount' = [updatedCount EXCEPT ![r] =
                           countedAfter(@, batchAt(predictions[r], i[r]), error)]
    /\ i' = [i EXCEPT ![r] = IF error THEN @ ELSE @ + batchSize]
    /\ IF ~error /\ i[r] + batchSize < Len(predictions[r])
       THEN /\ calls' = [calls EXCEPT ![r] =
                   Append(Answered(@, "ok"),
                          UpsertCall(i[r] + batchSize,
                              updatesOf(batchAt(predictions[r], i[r] + batchSize))))]
            /\ UNCHANGED <<pc, response>>
       ELSE /\ calls' = [calls EXCEPT ![r] =
                   Answered(@, IF error THEN "error" ELSE "ok")]
            /\ response' = [response EXCEPT ![r] =
                   IF error THEN ErrorResponse(500)
                   ELSE SummaryResponse(updatedCount'[r],
                            totalCountOf(request[r][1], students[r]))]
            /\ pc' = [pc EXCEPT ![r] = "done"]
    /\ UNCHANGED <<request, students, predictions, predictVars, uploadVars>>

\* The upsert of the batch at i is answered; the handler runs on to the next
\* upsert, or to its return.
HandleUpsert(r, error) ==
    /\ pc[r] = "upsert"
    /\ table' = storeAfterUpsert(table, updatesOf(batchAt(predictions[r], i[r])), error)
    /\ updatedCount' = [updatedCount EXCEPT ![r] =
                           countedAfter(@, batchAt(predictions[r], i[r]), error)]
    /\ i' = [i EXCEPT ![r] = @ + batchSize]
    /\ IF i[r] + batchSize < Len(predictions[r])
       THEN /\ calls' = [calls EXCEPT ![r] =
                   Append(Answered(@, IF error THEN "error" ELSE "ok"),
                          UpsertCall(i[r] + batchSize,
                              updatesOf(batchAt(predictions[r], i[r] + batchSize))))]
            /\ UNCHANGED <<pc, response>>
       ELSE /\ calls' = [calls EXCEPT ![r] =
                   Answered(@, IF error THEN "error" ELSE "ok")]
            /\ response' = [response EXCEPT ![r] =
                   SummaryResponse(updatedCount'[r],
                       totalCountOf(request[r][1], students[r]))]
            /\ pc' = [pc EXCEPT ![r] = "done"]
    /\ UNCHANGED <<request, students, predictions, predictVars, uploadVars>>

UpsertFails(r) == HandleUpsert(r, TRUE)

UpsertReturns(r) == HandleUpsert(r, FALSE)

\* The request's locals are gone.
Released(r) ==
    /\ pc' = [pc EXCEPT ![r] = "idle"]
    /\ request' = [request EXCEPT ![r] = <<>>]
    /\ students' = [students EXCEPT ![r] = <<>>]
    /\ predictions' = [predictions EXCEPT ![r] = <<>>]
    /\ i' = [i EXCEPT ![r] = 0]
    /\ updatedCount' = [updatedCount EXCEPT ![r] = 0]
    /\ response' = [response EXCEPT ![r] = NoResponse]
    /\ calls' = [calls EXCEPT ![r] = <<>>]

\* The response is delivered and the request's locals are gone.
Finish(r) ==
    /\ pc[r] = "done"
    /\ Released(r)
    /\ UNCHANGED <<table, predictVars, uploadVars>>

InitPredict ==
    /\ arg \in StudentInputs \cup ScenarioInputs \cup ExtremeInputs
    /\ ret = <<>>
    /\ risks = <<>>
    /\ InitHandler

\* predictDropoutRisk called on a record whose attendance runs over the
\* grid, the other attributes being those of the first profile.
InitAttendance ==
    /\ arg \in {[Profiles[1] EXCEPT !.attendance_percentage = a] :
                   a \in AttendanceGrid}
    /\ ret = <<>>
    /\ risks = <<>>
    /\ InitHandler

Predict ==
    /\ ret = <<>>
    /\ ret' = <<predictDropoutRisk(arg)>>
    /\ risks' = <<calculatorValues(arg)>>
    /\ UNCHANGED <<arg, handlerVars, uploadVars>>

Init ==
    /\ arg = Profiles[1]
    /\ ret = <<>>
    /\ risks = <<>>
    /\ InitHandler

Next ==
    \E r \in Runs :
        \/ \E req \in Requests : Start(r, req)
        \/ SelectFails(r)
        \/ SelectReturns(r)
        \/ UpsertFails(r)
        \/ UpsertReturns(r)
        \/ Finish(r)

NextFault ==
    \E r \in Runs :
        \/ \E req \in Requests : Start(r, req)
        \/ SelectFails(r)
        \/ SelectReturns(r)
        \/ SelectReturnsMalformed(r)
        \/ UpsertFails(r)
        \/ UpsertReturns(r)
        \/ Finish(r)

Spec == Init /\ [][Next]_vars

SpecFault == Init /\ [][NextFault]_vars

SpecPredict == InitPredict /\ [][Predict]_vars

SpecAttendance == InitAttendance /\ [][Predict]_vars

(***************************************************************************)
(* Two requests in flight, and direct edits of a record's raw attributes.  *)
(* The handler holds no lock and the store serialises single statements    *)
(* only, so the steps of two requests interleave at every await.  The      *)
(* store starts with all but the first Backlog records scored.             *)
(***************************************************************************)
Backlog == 2

OverlappingRuns == {"r1", "r2"}

OverlapRequests ==
    {[method |-> "POST", processNewStudents |-> Bool(TRUE), studentIds |-> Undefined],
     [method |-> "POST", processNewStudents |-> Undefined,
      studentIds |-> Array(<<1>>)]}

\* The store after a run has scored the records Backlog + 1 .. NumStudents.
BacklogTable ==
    upsert(InitialTable,
           updatesOf(predictionsOf(
               selectWhereIdIn(InitialTable, IdRange(Backlog + 1, NumStudents)))))

EditedIds == {1}

EditedAttendance == {Profiles[1].attendance_percentage, Profiles[4].attendance_percentage}

\* An UPDATE that nulls the score columns of the row it changes.
rowAfterEditResettingScore(row, a) ==
    [row EXCEPT !.attendance_percentage = a,
                !.risk_score = Null,
                !.risk_level = Null,
                !.prediction_factors = Null]

\* UPDATE students SET attendance_percentage = a WHERE id = ...: the trigger
\* touches updated_at only; every other column keeps its value.
rowAfterEdit(row, a) == [row EXCEPT !.attendance_percentage = a]

\* A user edits a raw attribute of a record directly in the store.
Edit(id, a) ==
    /\ table[id].attendance_percentage # a
    /\ table' = [table EXCEPT ![id] = rowAfterEdit(@, a)]
    /\ UNCHANGED <<pc, request, students, predictions, i, updatedCount,
                   response, calls, predictVars, uploadVars>>

InitOverlap ==
    /\ InitUploadVars
    /\ arg = Profiles[1]
    /\ ret = <<>>
    /\ risks = <<>>
    /\ table = BacklogTable
    /\ pc = [r \in OverlappingRuns |-> "idle"]
    /\ request = [r \in OverlappingRuns |-> <<>>]
    /\ students = [r \in OverlappingRuns |-> <<>>]
    /\ predictions = [r \in OverlappingRuns |-> <<>>]
    /\ i = [r \in OverlappingRuns |-> 0]
    /\ updatedCount = [r \in OverlappingRuns |-> 0]
    /\ response = [r \in OverlappingRuns |-> NoResponse]
    /\ calls = [r \in OverlappingRuns |-> <<>>]

NextOverlap ==
    \/ \E r \in OverlappingRuns :
          \/ \E req \in OverlapRequests : Start(r, req)
          \/ SelectFails(r)
          \/ SelectReturns(r)
          \/ UpsertFails(r)
          \/ UpsertReturns(r)
          \/ Finish(r)
    \/ \E id \in EditedIds, a \in EditedAttendance : Edit(id, a)

SpecOverlap == InitOverlap /\ [][NextOverlap]_vars

\* The same requests in flight while nothing edits the records.
NextOverlapUnedited ==
    \E r \in OverlappingRuns :
        \/ \E req \in OverlapRequests : Start(r, req)
        \/ SelectFails(r)
        \/ SelectReturns(r)
        \/ UpsertFails(r)
        \/ UpsertReturns(r)
        \/ Finish(r)

SpecOverlapUnedited == InitOverlap /\ [][NextOverlapUnedited]_vars

(***************************************************************************)
(* The Upload page: handleFileUpload inserts the parsed records in batches *)
(* and then invokes the prediction function, whose handler runs as request  *)
(* r1 on the same store.  The store starts empty.                          *)
(***************************************************************************)
MaxUploads == 2

uploadBatchSize == 50

UploadSizes == {0, 1, uploadBatchSize + 1}

\* The header row of the sample file, and the four optional columns.
fileHeaders ==
    <<Text("Name"), Text("Email"), Text("Student_ID"), Text("Department"),
      Text("Semester"), Text("Gender"), Text("Attendance_Percentage"),
      Text("CGPA"), Text("SGPA"), Text("Fee_Default"),
      Text("Disciplinary_Actions"), Text("Scholarship"),
      Text("Extracurriculars"), Text("Family_Income"),
      Text("Distance_From_Home"), Text("Hostel_Accommodation"),
      Text("Previous_Education_Gap")>>

boolCell(b) == Text(IF b THEN "true" ELSE "false")

optionalCell(v) == IF v.kind = "number" THEN Numeral(100 * v.val) ELSE Text("")

\* The data row of student number k with the attributes of profile p.
fileRow(k, p) ==
    <<Text("Student " \o ToString(k)),
      Text("student" \o ToString(k) \o "@university.edu"),
      Text("CS" \o ToString(k)), Text("Computer Science"),
      Numeral(100 * p.semester), Text("male"),
      Numeral(p.attendance_percentage), Numeral(p.cgpa), Numeral(p.sgpa),
      boolCell(p.fee_default), Numeral(100 * p.disciplinary_actions),
      boolCell(p.scholarship), Numeral(100 * p.extracurriculars),
      optionalCell(p.family_income), optionalCell(p.distance_from_home),
      boolCell(p.hostel_accommodation), boolCell(p.previous_education_gap)>>

\* A file of n complete data rows.
parsedStudents(n) ==
    <<fileHeaders>> \o
    [k \in 1..n |-> fileRow(k, Profiles[((k - 1) % Len(Profiles)) + 1])]

\* A file none of whose data rows can be used: one is short, one has no
\* name.
FileOfDroppedRows ==
    <<fileHeaders, SubSeq(fileRow(1, Profiles[1]), 1, Len(fileHeaders) - 1),
      BlankLine, [fileRow(2, Profiles[2]) EXCEPT ![1] = Text("")]>>

\* The files handed to handleFileUpload: of a wrong type, or of a valid
\* type with this content.
UploadFiles ==
    {[typeValid |-> FALSE, content |-> <<>>],
     [typeValid |-> TRUE, content |-> FileOfDroppedRows]}
    \cup
    {[typeValid |-> TRUE, content |-> parsedStudents(n)] : n \in UploadSizes}

NoBody ==
    [method |-> "none", processNewStudents |-> Undefined, studentIds |-> Undefined]

\* body: { processNewStudents: true }
InvokeBody ==
    [method |-> "POST", processNewStudents |-> Bool(TRUE), studentIds |-> Undefined]

InsertCall(from, batch) ==
    [op |-> "insert", from |-> from, count |-> Len(batch), body |-> NoBody,
     outcome |-> "pending"]

InvokeCall ==
    [op |-> "invoke", from |-> 0, count |-> 0, body |-> InvokeBody,
     outcome |-> "pending"]

\* students.slice(i, i + batchSize)
uploadBatchAt(studs, from) ==
    SubSeq(studs, from + 1, MinOf(from + uploadBatchSize, Len(studs)))

\* The columns of an inserted row: an absent column takes its DEFAULT, or
\* NULL where it has none.
columnsOf(student) ==
    LET at(field, default) ==
            IF field \in DOMAIN student THEN student[field] ELSE default
    IN  [student_id             |-> student.student_id,
         attendance_percentage  |-> student.attendance_percentage,
         cgpa                   |-> student.cgpa,
         sgpa                   |-> student.sgpa,
         semester               |-> student.semester,
         fee_default            |-> at("fee_default", FALSE),
         disciplinary_actions   |-> at("disciplinary_actions", 0),
         scholarship            |-> at("scholarship", FALSE),
         extracurriculars       |-> at("extracurriculars", 0),
         family_income          |-> at("family_income", Null),
         distance_from_home     |-> at("distance_from_home", Null),
         hostel_accommodation   |-> at("hostel_accommodation", FALSE),
         previous_education_gap |-> at("previous_education_gap", FALSE)]

\* The constraints of public.students on a batch: the NOT NULL columns
\* without DEFAULT are given, the CHECKs hold and no student_id is taken.
\* In the files here a row's email is taken exactly when its student_id
\* is, so the one UNIQUE column stands for both.
satisfiesConstraints(tbl, batch) ==
    /\ \A k \in DOMAIN batch :
          /\ {"name", "email", "student_id", "department", "semester",
               "gender", "attendance_percentage", "cgpa", "sgpa"}
                 \subseteq DOMAIN batch[k]
          /\ batch[k].semester > 0
          /\ batch[k].attendance_percentage <= 100 * 100
          /\ batch[k].cgpa < 10 * 100
          /\ batch[k].sgpa < 10 * 100
          /\ \A id \in DOMAIN tbl : tbl[id].student_id # batch[k].student_id
    /\ \A j, k \in DOMAIN batch :
          batch[j].student_id = batch[k].student_id => j = k

\* Whether insert(batch) can come back with an error: always (the request
\* may not reach the store), and without one only if the batch satisfies
\* the constraints.
insertErrors(tbl, batch) ==
    IF satisfiesConstraints(tbl, batch) THEN {TRUE, FALSE} ELSE {TRUE}

\* .from('students').insert(batch): the store gives each row its id; the
\* score columns, which no parsed record has, are null.
insert(tbl, batch) ==
    tbl \o [k \in 1..Len(batch) |-> NewRow(Len(tbl) + k, columnsOf(batch[k]))]

\* The share of the records alone, as a percentage.
progressOfShare(processed, total) ==
    CHOOSE progress \in
        {FMul(share, FInt(100)) : share \in {FRatio(processed, total)}} : TRUE

\* 60 + (processedCount / students.length) * 30, for every count of
\* every file: each is computed once.
progressValues ==
    {<<processed, total,
       FAdd(FInt(60), FMul(FRatio(processed, total), FInt(30)))>> :
        processed \in 0..(uploadBatchSize + 1), total \in UploadSizes \ {0}}

progressOf(processed, total) ==
    (CHOOSE v \in progressValues : v[1] = processed /\ v[2] = total)[3]

\* The status of the catch block.
ErrorStatus == UploadStatus("error", c0, Undefined, Undefined)

\* { status: 'uploading', progress: 20 }
UploadingStatus == UploadStatus("uploading", FInt(20), Undefined, Undefined)

\* { status: 'processing', progress: 40 }
ParsingStatus == UploadStatus("processing", FInt(40), Undefined, Undefined)

\* handleFileUpload is called with a file: a file of a wrong type is
\* rejected at once; otherwise the function sets the status to 'uploading'
\* and awaits readFileContent.
StartUpload(file) ==
    /\ upload.pc = "idle"
    /\ uploads < MaxUploads
    /\ uploads' = uploads + 1
    /\ IF ~file.typeValid
       THEN /\ uploadStatus' = ErrorStatus
            /\ upload' = [NoUpload EXCEPT !.pc = "end",
                                          !.statuses = <<ErrorStatus>>]
       ELSE /\ uploadStatus' = UploadingStatus
            /\ upload' = [NoUpload EXCEPT !.pc = "read",
                                          !.content = file.content,
                                          !.statuses = <<UploadingStatus>>]
    /\ UNCHANGED <<handlerVars, predictVars>>

\* reader.onerror: the promise is rejected and the catch block runs.
ReadFails ==
    /\ upload.pc = "read"
    /\ uploadStatus' = ErrorStatus
    /\ upload' = [upload EXCEPT !.pc = "end",
                                !.statuses = Append(@, ErrorStatus)]
    /\ UNCHANGED <<handlerVars, predictVars, uploads>>

\* A check that lets a file without usable rows through.
noStudentsOnThrowOnly(parsed) == parsed.throws

\* parseCSVContent throws, or students.length === 0 and the function
\* throws itself.
noStudents(parsed) == parsed.throws \/ Len(parsed.students) = 0

\* reader.onload: the function sets the status 'processing' at progress
\* 40, parses the content and runs to its first insert or into the catch
\* block.
ReadReturns ==
    /\ upload.pc = "read"
    /\ \E parsed \in {parseCSVContent(upload.content)} :
          IF noStudents(parsed)
          THEN /\ uploadStatus' = ErrorStatus
               /\ upload' = [upload EXCEPT
                                 !.pc = "end",
                                 !.statuses = @ \o <<ParsingStatus, ErrorStatus>>]
          ELSE /\ uploadStatus' =
                      UploadStatus("processing", FInt(60), Undefined,
                                   Number(Len(parsed.students)))
               /\ upload' =
                      [upload EXCEPT
                          !.pc = "insert",
                          !.students = parsed.students,
                          !.statuses = @ \o <<ParsingStatus, uploadStatus'>>,
                          !.calls = <<InsertCall(0,
                                        uploadBatchAt(parsed.students, 0))>>]
    /\ UNCHANGED <<handlerVars, predictVars, uploads>>

\* A count that leaves out the batches whose insert failed.
processedAfterInsertedOnly(count, batch, error) ==
    IF error THEN count ELSE count + Len(batch)

\* processedCount += batch.length, after the if (error) that only logs.
processedAfter(count, batch, error) == count + Len(batch)

\* The insert of the batch at i is answered, without error only if the
\* batch satisfies the table's constraints; an error is logged only.  The
\* function runs on to the next insert, or to the invocation of the
\* prediction function.
HandleInsert(error) ==
    /\ upload.pc = "insert"
    /\ \E batch \in {uploadBatchAt(upload.students, upload.i)} :
       /\ error \in insertErrors(table, batch)
       /\ table' = IF error THEN table ELSE insert(table, batch)
       /\ IF upload.i + uploadBatchSize < Len(upload.students)
          THEN /\ uploadStatus' =
                      UploadStatus("processing",
                          progressOf(processedAfter(upload.processedCount, batch, error),
                                     Len(upload.students)),
                          Number(processedAfter(upload.processedCount, batch, error)),
                          Number(Len(upload.students)))
               /\ upload' =
                      [upload EXCEPT
                          !.i = @ + uploadBatchSize,
                          !.processedCount =
                              processedAfter(@, batch, error),
                          !.calls =
                              Append(Answered(@, IF error THEN "error" ELSE "ok"),
                                     InsertCall(upload.i + uploadBatchSize,
                                         uploadBatchAt(upload.students,
                                                       upload.i + uploadBatchSize))),
                          !.statuses = Append(@, uploadStatus')]
          ELSE /\ uploadStatus' =
                      UploadStatus("processing", FInt(90),
                          Number(processedAfter(upload.processedCount, batch, error)),
                          Number(Len(upload.students)))
               /\ upload' =
                      [upload EXCEPT
                          !.pc = "invoke",
                          !.i = @ + uploadBatchSize,
                          !.processedCount =
                              processedAfter(@, batch, error),
                          !.calls =
                              Append(Answered(@, IF error THEN "error" ELSE "ok"),
                                     InvokeCall),
                          !.statuses =
                              @ \o <<UploadStatus("processing",
                                         progressOf(
                                             processedAfter(upload.processedCount,
                                                            batch, error),
                                             Len(upload.students)),
                                         uploadStatus'.processedCount,
                                         uploadStatus'.totalCount),
                                     uploadStatus'>>]
    /\ UNCHANGED <<pc, request, students, predictions, i, updatedCount,
                   response, calls, predictVars, uploads>>

InsertFails == HandleInsert(TRUE)

InsertReturns == HandleInsert(FALSE)

\* An upload that fails when the prediction function fails.
statusAfterInvokeThrowing(mlError) ==
    IF mlError THEN ErrorStatus
    ELSE UploadStatus("success", FInt(100), Number(upload.processedCount),
                      Number(Len(upload.students)))

\* if (mlError) console.error(...); setUploadStatus({ status: 'success', ... })
statusAfterInvoke(mlError) ==
    UploadStatus("success", FInt(100), Number(upload.processedCount),
                 Number(Len(upload.students)))

\* The invocation is answered with { error: mlError }; handleFileUpload
\* runs to its return.
HandleInvoke(mlError) ==
    /\ upload.pc = "invoke"
    /\ upload' = [upload EXCEPT
                     !.pc = "end",
                     !.calls = Answered(@, IF mlError THEN "error" ELSE "ok"),
                     !.statuses = Append(@, statusAfterInvoke(mlError))]
    /\ uploadStatus' = statusAfterInvoke(mlError)
    /\ UNCHANGED uploads

\* The invocation reaches the function: the handler starts on the request.
InvokeArrives(r) ==
    /\ upload.pc = "invoke"
    /\ Start(r, InvokeBody)

\* The invocation fails before it reaches the function.
InvokeFails(r) ==
    /\ pc[r] = "idle"
    /\ HandleInvoke(TRUE)
    /\ UNCHANGED <<handlerVars, predictVars>>

\* The handler's response arrives: a status outside 2xx is an error.
InvokeReturns(r) ==
    /\ pc[r] = "done"
    /\ HandleInvoke(response[r].status \notin 200..299)
    /\ Released(r)
    /\ UNCHANGED <<table, predictVars>>

\* resetUpload: the page is ready for another file.
ResetUpload ==
    /\ upload.pc = "end"
    /\ upload' = NoUpload
    /\ uploadStatus' = IdleStatus
    /\ UNCHANGED <<handlerVars, predictVars, uploads>>

InitUpload ==
    /\ InitUploadVars
    /\ arg = Profiles[1]
    /\ ret = <<>>
    /\ risks = <<>>
    /\ table = <<>>
    /\ pc = [r \in Runs |-> "idle"]
    /\ request = [r \in Runs |-> <<>>]
    /\ students = [r \in Runs |-> <<>>]
    /\ predictions = [r \in Runs |-> <<>>]
    /\ i = [r \in Runs |-> 0]
    /\ updatedCount = [r \in Runs |-> 0]
    /\ response = [r \in Runs |-> NoResponse]
    /\ calls = [r \in Runs |-> <<>>]

NextUpload ==
    \/ \E file \in UploadFiles : StartUpload(file)
    \/ ReadFails
    \/ ReadReturns
    \/ InsertFails
    \/ InsertReturns
    \/ ResetUpload
    \/ \E r \in Runs :
          \/ InvokeArrives(r)
          \/ InvokeFails(r)
          \/ InvokeReturns(r)
          \/ SelectFails(r)
          \/ SelectReturns(r)
          \/ UpsertFails(r)
          \/ UpsertReturns(r)

SpecUpload == InitUpload /\ [][NextUpload]_vars

\* Every await of handleFileUpload and of the handler it invokes is
\* answered: the reader fires onload or onerror, and each call on the
\* store or on the function resolves with data or with an error.
Answers ==
    \/ ReadFails
    \/ ReadReturns
    \/ InsertFails
    \/ InsertReturns
    \/ \E r \in Runs :
          \/ InvokeArrives(r)
          \/ InvokeFails(r)
          \/ InvokeReturns(r)
          \/ SelectFails(r)
          \/ SelectReturns(r)
          \/ UpsertFails(r)
          \/ UpsertReturns(r)

SpecUploadLive == SpecUpload /\ WF_vars(Answers)

(***************************************************************************)
(* parseCSVContent on its own: called once on the content of a file.       *)
(***************************************************************************)
MaxRows == 3

\* A header row of aliases, with a column that is not mapped and a second
\* column for the student id; and one without a department.
aliasHeaders ==
    <<Text("Name"), Text("Email"), Text("notes"), Text("Department"),
      Text("StudentID"), Text("attendance"), Text("Student_ID")>>

shortHeaders == <<Text("Name"), Text("Email"), Text("Student_ID")>>

\* The lines a file may hold at position k: the complete row of student k,
\* the row cut short or with a cell too many, the row without one of the
\* required cells, the row with text in place of every number and flag,
\* the row with the required cells alone, and a blank line.
FileLines(k) ==
    LET row == fileRow(k, Profiles[((k - 1) % Len(Profiles)) + 1])
    IN  {row, SubSeq(row, 1, Len(row) - 1), row \o <<Text("extra")>>,
         [row EXCEPT ![1] = Text("")], [row EXCEPT ![2] = Text("")],
         [row EXCEPT ![3] = Text("")], [row EXCEPT ![4] = Text("")],
         [x \in DOMAIN row |->
             IF x <= 4 THEN row[x]
             ELSE IF x = 6 THEN Text("Unknown")
             ELSE IF x = 10 THEN Text("Yes")
             ELSE IF x = 12 THEN Numeral(100)
             ELSE Text("n/a")],
         [x \in DOMAIN row |-> IF x <= 4 THEN row[x] ELSE Text("")],
         BlankLine}

RECURSIVE FileBodies(_)
FileBodies(n) ==
    IF n = 0 THEN {<<>>}
    ELSE FileBodies(n - 1) \cup
         {Append(body, line) :
             body \in {b \in FileBodies(n - 1) : Len(b) = n - 1},
             line \in FileLines(n)}

FileContents ==
    {<<>>} \cup
    {<<headers>> \o body :
        headers \in {fileHeaders, aliasHeaders, shortHeaders},
        body \in FileBodies(MaxRows)}

InitParse ==
    /\ arg \in FileContents
    /\ ret = <<>>
    /\ risks = <<>>
    /\ InitUploadVars
    /\ table = <<>>
    /\ pc = [r \in Runs |-> "idle"]
    /\ request = [r \in Runs |-> <<>>]
    /\ students = [r \in Runs |-> <<>>]
    /\ predictions = [r \in Runs |-> <<>>]
    /\ i = [r \in Runs |-> 0]
    /\ updatedCount = [r \in Runs |-> 0]
    /\ response = [r \in Runs |-> NoResponse]
    /\ calls = [r \in Runs |-> <<>>]

Parse ==
    /\ ret = <<>>
    /\ ret' = <<parseCSVContent(arg)>>
    /\ UNCHANGED <<arg, risks, handlerVars, uploadVars>>

SpecParse == InitParse /\ [][Parse]_vars

(***************************************************************************)
(* Properties of predictDropoutRisk, under SpecPredict.                    *)
(***************************************************************************)
Returned == ret # <<>>

\* C1: the risk_level of every result agrees with the risk_score of the same
\* result: 'high' iff risk_score >= 0.70, 'medium' iff 0.40 <= risk_score <
\* 0.70, 'low' iff risk_score < 0.40.
C1_LevelAgreesWithScore ==
    Returned =>
        /\ ret[1].risk_level = "high" <=> ret[1].risk_score >= 70
        /\ ret[1].risk_level = "medium" <=>
               (40 <= ret[1].risk_score /\ ret[1].risk_score < 70)
        /\ ret[1].risk_level = "low" <=> ret[1].risk_score < 40

Unknown(v) == v.kind \in {"undefined", "null"}

Cents(b, k) == IF b THEN k ELSE 0

\* C2: for a record whose family income is unknown (absent or null) the
\* income term adds 0 to calculateFinancialRisk, which is then the fee and
\* scholarship terms alone; for one whose distance is unknown the distance
\* term adds 0 to calculateDemographicRisk, which is then the hostel, gap and
\* semester terms alone; and the call returns.
C2_UnknownFieldsAddNothing ==
    Returned =>
        /\ Unknown(arg.family_income) =>
               Round2(risks[1].financial) =
                   Cents(arg.fee_default, 60) + Cents(~arg.scholarship, 20)
        /\ Unknown(arg.distance_from_home) =>
               Round2(risks[1].demographic) =
                   Cents(arg.hostel_accommodation, 10)
                   + Cents(arg.previous_education_gap, 30)
                   + Cents(arg.semester > 6, 10)

FactorNames ==
    {"attendance_impact", "academic_impact", "financial_impact",
     "behavioral_impact", "engagement_impact"}

\* Exactly the five entries, each in [0,1] (in hundredths).
FactorsWellFormed(f) ==
    /\ DOMAIN f = FactorNames
    /\ \A n \in FactorNames : f[n] \in 0..100

\* The weighted sum of the five factors, in units of 1/10000.
WeightedFactors(f) ==
    25 * f.attendance_impact + 20 * f.academic_impact + 15 * f.financial_impact
    + 15 * f.behavioral_impact + 10 * f.engagement_impact

\* sum (in 1/10000) is score (in hundredths) to the two decimals score has.
EqualsTo2Decimals(sum, score) == sum - 100 * score \in -50..50

\* C3 as stated: prediction_factors has exactly the five entries, each in
\* [0,1], and their weighted sum (0.25, 0.20, 0.15, 0.15, 0.10) equals the
\* returned risk_score.
C3_FactorsSumToScore ==
    Returned =>
        /\ FactorsWellFormed(ret[1].prediction_factors)
        /\ EqualsTo2Decimals(WeightedFactors(ret[1].prediction_factors),
                             ret[1].risk_score)

\* C3 amended: prediction_factors has exactly the five entries, each in
\* [0,1], and their weighted sum plus 0.15 times the demographic risk, which
\* is not among the factors, equals the returned risk_score to its two
\* decimals.
C3_FactorsAndDemographicSumToScore ==
    Returned =>
        /\ FactorsWellFormed(ret[1].prediction_factors)
        /\ EqualsTo2Decimals(WeightedFactors(ret[1].prediction_factors)
                                 + 15 * Round2(risks[1].demographic),
                             ret[1].risk_score)

\* A result whose score holds a demographic share the factors do not show.
C3_Witness ==
    /\ Returned
    /\ Round2(risks[1].demographic) >= 30
    /\ ~EqualsTo2Decimals(WeightedFactors(ret[1].prediction_factors),
                          ret[1].risk_score)

(***************************************************************************)
(* Properties of the request handler.                                      *)
(***************************************************************************)
UpsertIndexes(r) == {j \in DOMAIN calls[r] : calls[r][j].op = "upsert"}

SelectSucceeded(r) == calls[r] # <<>> /\ calls[r][1].outcome = "ok"

SelectFailed(r) == calls[r] # <<>> /\ calls[r][1].outcome = "error"

\* The ids of the records an upsert of the run has persisted.
PersistedIds(r) ==
    UNION {calls[r][j].ids : j \in {k \in UpsertIndexes(r) : calls[r][k].outcome = "ok"}}

\* The ids of the batch of the run's predictions that starts at index from.
BatchIds(r, from) ==
    {predictions[r][j].id :
        j \in (from + 1)..MinOf(from + batchSize, Len(predictions[r]))}

\* The number of batches the run's predictions make.
NumBatches(r) == (Len(predictions[r]) + batchSize - 1) \div batchSize

\* The row of id holds what the run predicted for it.
Written(r, id) ==
    \E n \in DOMAIN predictions[r] :
        /\ predictions[r][n].id = id
        /\ table[id].risk_score = Number(predictions[r][n].prediction.risk_score)
        /\ table[id].risk_level = Str(predictions[r][n].prediction.risk_level)
        /\ table[id].prediction_factors =
               Obj(predictions[r][n].prediction.prediction_factors)

UpsertFailsNow(r) ==
    /\ pc[r] = "upsert"
    /\ Len(calls'[r]) >= Len(calls[r])
    /\ calls'[r][Len(calls[r])].outcome = "error"

\* The upserts of a run are its batches in order, each once.
BatchesInOrder(r) ==
    \A j \in UpsertIndexes(r) :
        /\ j >= 2
        /\ calls[r][j].from = (j - 2) * batchSize
        /\ calls[r][j].ids = BatchIds(r, (j - 2) * batchSize)

\* C5: when the upsert of a batch fails the run continues: the failed batch
\* is not attempted again and its records stay as they were, the next batch
\* is attempted, and a run that ends has attempted every batch exactly once.
C5_FailedBatchSkipped ==
    /\ [](\A r \in Runs :
            /\ BatchesInOrder(r)
            /\ (pc[r] = "done" /\ SelectSucceeded(r)) =>
                   Cardinality(UpsertIndexes(r)) = NumBatches(r))
    /\ [][\A r \in Runs :
            UpsertFailsNow(r) =>
                /\ table' = table
                /\ IF i[r] + batchSize < Len(predictions[r])
                   THEN /\ Len(calls'[r]) = Len(calls[r]) + 1
                        /\ calls'[r][Len(calls'[r])].op = "upsert"
                        /\ calls'[r][Len(calls'[r])].ids = BatchIds(r, i[r] + batchSize)
                   ELSE /\ Len(calls'[r]) = Len(calls[r])
                        /\ response'[r].kind = "summary"]_vars

\* A run that ended after its first batch failed and a later one succeeded:
\* the first batch's records are unscored, the later batch's are scored.
C5_Witness ==
    \E r \in Runs :
        /\ pc[r] = "done"
        /\ Len(calls[r]) >= 3
        /\ calls[r][2].outcome = "error"
        /\ calls[r][3].outcome = "ok"
        /\ \A id \in calls[r][2].ids : ScoreIsNull(table[id])
        /\ \A id \in calls[r][3].ids : ~ScoreIsNull(table[id])

\* C6: when the upsert of a batch fails, the records of the earlier batches
\* whose upsert succeeded keep the score, level and factors written for
\* them.
C6_NoRollbackOfEarlierBatches ==
    \A r \in Runs :
        \A j, k \in UpsertIndexes(r) :
            (j < k /\ calls[r][j].outcome = "ok" /\ calls[r][k].outcome = "error") =>
                \A id \in calls[r][j].ids : Written(r, id)

\* A batch has been persisted and a later batch of the same run has failed.
C6_Witness ==
    \E r \in Runs :
        /\ Len(calls[r]) >= 3
        /\ calls[r][2].outcome = "ok"
        /\ calls[r][3].outcome = "error"
        /\ calls[r][2].ids # {}
        /\ \A id \in calls[r][2].ids : ~ScoreIsNull(table[id])

\* C7: a run whose select succeeded returns a summary; its totalCount is the
\* number of records selected and its processedCount the number of records
\* of the batches whose upsert succeeded, so 0 <= processedCount <= totalCount.
C7_SummaryCounts ==
    \A r \in Runs :
        (pc[r] = "done" /\ SelectSucceeded(r)) =>
            /\ response[r].kind = "summary"
            /\ response[r].status = 200
            /\ response[r].totalCount = Len(students[r])
            /\ response[r].processedCount = Cardinality(PersistedIds(r))
            /\ 0 <= response[r].processedCount
            /\ response[r].processedCount <= response[r].totalCount

\* A summary of a run of which one batch failed and another was persisted.
C7_Witness ==
    \E r \in Runs :
        /\ pc[r] = "done"
        /\ response[r].kind = "summary"
        /\ \E j \in UpsertIndexes(r) : calls[r][j].outcome = "error"
        /\ 0 < response[r].processedCount
        /\ response[r].processedCount < response[r].totalCount

\* The request of run r is a POST with an explicit, empty studentIds list.
EmptyListRequest(r) ==
    /\ request[r] # <<>>
    /\ request[r][1].method = "POST"
    /\ request[r][1].studentIds = Array(<<>>)

\* The run has answered 400 and has issued no call to the store.
Rejected(r) ==
    /\ pc[r] = "done"
    /\ response[r] = ErrorResponse(400)
    /\ calls[r] = <<>>

\* C8 as stated: a request with an explicit but empty studentIds list gets
\* the 400 error response, whatever else it contains.
C8_EmptyListRejected ==
    \A r \in Runs : EmptyListRequest(r) => Rejected(r)

\* C8 amended: a request with an explicit but empty studentIds list gets the
\* 400 error response unless its processNewStudents is truthy; with a truthy
\* processNewStudents it is a run over the unscored records and is not
\* answered 400.
C8_EmptyListRejectedUnlessNew ==
    \A r \in Runs :
        EmptyListRequest(r) =>
            IF IsTruthy(request[r][1].processNewStudents)
            THEN calls[r] # <<>> /\ response[r] # ErrorResponse(400)
            ELSE Rejected(r)

\* An empty list with processNewStudents false has been answered 400.
C8_Witness ==
    \E r \in Runs :
        /\ EmptyListRequest(r)
        /\ request[r][1].processNewStudents = Bool(FALSE)
        /\ Rejected(r)

\* The request of run r is a POST with neither selection mode.
NoModeRequest(req) ==
    /\ req.method = "POST"
    /\ req.processNewStudents = Undefined
    /\ req.studentIds = Undefined

\* C9: a request with neither processNewStudents nor studentIds gets an
\* {error} response with a 4xx status, and the run issues no select and no
\* upsert; the store is unchanged.
C9_NoModeRejected ==
    /\ [](\A r \in Runs :
            (request[r] # <<>> /\ NoModeRequest(request[r][1])) =>
                /\ pc[r] = "done"
                /\ response[r].kind = "error"
                /\ response[r].status \in 400..499
                /\ calls[r] = <<>>)
    /\ [][\A r \in Runs :
            (request'[r] # <<>> /\ NoModeRequest(request'[r][1])) =>
                table' = table]_vars

\* A request with neither mode has been answered 400 without a call.
C9_Witness ==
    \E r \in Runs :
        /\ request[r] # <<>>
        /\ NoModeRequest(request[r][1])
        /\ response[r] = ErrorResponse(400)
        /\ calls[r] = <<>>
        /\ table = InitialTable

\* C10: when the select fails, in either selection mode, the run fails: the
\* response is an error without counts, no prediction is computed, no upsert
\* is issued and no record changes.
C10_SelectFailureIsFatal ==
    /\ [](\A r \in Runs :
            SelectFailed(r) =>
                /\ pc[r] = "done"
                /\ response[r] = ErrorResponse(500)
                /\ predictions[r] = <<>>
                /\ UpsertIndexes(r) = {})
    /\ [][\A r \in Runs : SelectFailed(r)' => table' = table]_vars

\* The select of a run over an id list has failed and the run has answered.
C10_Witness ==
    \E r \in Runs :
        /\ SelectFailed(r)
        /\ selectionMode(request[r][1]) = "ids"
        /\ response[r] = ErrorResponse(500)

\* The run has ended after a select that succeeded, and the upsert of one of
\* its batches has failed.
EndedWithFailedBatch(r) ==
    /\ pc[r] = "done"
    /\ SelectSucceeded(r)
    /\ \E j \in UpsertIndexes(r) : calls[r][j].outcome = "error"

\* C11: a failed batch upsert is recovered locally and the run still answers
\* with the success summary, unless the failed batch is the only work item
\* of the run: then the failure is propagated to the caller and the run
\* answers with an error.
C11_OnlyBatchFailurePropagates ==
    \A r \in Runs :
        EndedWithFailedBatch(r) =>
            IF NumBatches(r) = 1
            THEN response[r].kind = "error"
            ELSE response[r].kind = "summary" /\ response[r].status = 200

(***************************************************************************)
(* The documented scenarios, under SpecPredict.                            *)
(***************************************************************************)
\* The record passed is scenario k with income and distance not supplied.
IsScenario(k) ==
    /\ Returned
    /\ Unknown(arg.family_income)
    /\ Unknown(arg.distance_from_home)
    /\ [arg EXCEPT !.family_income = Null, !.distance_from_home = Null]
           = Profiles[k]

\* The six calculator values of the call, in hundredths.
RisksAre(att, aca, fin, beh, eng, dem) ==
    /\ Round2(risks[1].attendance) = att
    /\ Round2(risks[1].academic) = aca
    /\ Round2(risks[1].financial) = fin
    /\ Round2(risks[1].behavioral) = beh
    /\ Round2(risks[1].engagement) = eng
    /\ Round2(risks[1].demographic) = dem

C13_ScenarioOneAsDocumented ==
    IsScenario(1) =>
        /\ RisksAre(30, 20, 0, 10, 10, 0)
        /\ ret[1].risk_score = 14
        /\ ret[1].risk_level = "low"

\* A record within the ranges the store enforces.
ValidRecord(st) ==
    /\ st.attendance_percentage \in 0..(100 * 100)
    /\ st.cgpa \in 0..(10 * 100)
    /\ st.sgpa \in 0..(10 * 100)
    /\ st.disciplinary_actions >= 0
    /\ st.extracurriculars >= 0
    /\ st.semester > 0

\* C14: for every valid record (attendance in [0,100], CGPA and SGPA in
\* [0,10], non-negative counts, positive semester, any flags and optional
\* fields) the risk_score predictDropoutRisk returns lies in [0,1].
C14_ScoreInUnitInterval ==
    (Returned /\ ValidRecord(arg)) =>
        /\ 0 <= ret[1].risk_score
        /\ ret[1].risk_score <= 100

\* The valid record with every calculator at its highest has been scored.
C14_Witness ==
    /\ Returned
    /\ ValidRecord(arg)
    /\ RisksAre(90, 80, 100, 80, 50, 70)
    /\ ret[1].risk_score > 80

(***************************************************************************)
(* calculateAttendanceRisk, under SpecAttendance.                          *)
(***************************************************************************)
\* The band of the documented table attendance a falls in, in hundredths.
AttendanceBand(a) ==
    IF a >= 90 * 100 THEN 10
    ELSE IF a >= 80 * 100 THEN 30
    ELSE IF a >= 70 * 100 THEN 50
    ELSE IF a >= 60 * 100 THEN 70
    ELSE 90

\* C15: for all attendance values a <= b in [0,100],
\* calculateAttendanceRisk(a) >= calculateAttendanceRisk(b); every result is
\* one of 0.1, 0.3, 0.5, 0.7, 0.9, with the bands starting at 90, 80, 70 and
\* 60, each bound belonging to the band above it.
C15_AttendanceRiskSteps ==
    Returned =>
        /\ Round2(risks[1].attendance) \in {10, 30, 50, 70, 90}
        /\ Round2(risks[1].attendance) = AttendanceBand(arg.attendance_percentage)
        /\ \A b \in AttendanceGrid :
              arg.attendance_percentage <= b =>
                  FGeq(risks[1].attendance, calculateAttendanceRisk(b))

\* The risk of an attendance of exactly 70 has been computed: it is 0.5, and
\* that of the next lower attendance is higher.
C15_Witness ==
    /\ Returned
    /\ arg.attendance_percentage = 70 * 100
    /\ Round2(risks[1].attendance) = 50
    /\ FLess(risks[1].attendance, calculateAttendanceRisk(70 * 100 - 1))

(***************************************************************************)
(* Properties of the record store.                                         *)
(***************************************************************************)
\* C16: in every reachable state of the store (records created by
\* ingestion, then any number of runs in either mode with any pattern of
\* batch failures) each record's risk_score is non-null if and only if its
\* risk_level is non-null.
C16_ScoreAndLevelTogether ==
    \A id \in DOMAIN table :
        (table[id].risk_score # Null) <=> (table[id].risk_level # Null)

\* A run of which one batch was persisted and another failed has ended: the
\* store holds scored records and unscored ones.
C16_Witness ==
    /\ \E r \in Runs :
          /\ pc[r] = "done"
          /\ \E j \in UpsertIndexes(r) : calls[r][j].outcome = "error"
          /\ \E j \in UpsertIndexes(r) : calls[r][j].outcome = "ok"
    /\ \E id \in DOMAIN table :
          table[id].risk_score # Null /\ table[id].risk_level # Null
    /\ \E id \in DOMAIN table :
          table[id].risk_score = Null /\ table[id].risk_level = Null

\* The request of run r asks for the unscored records.
NewMode(r) == request[r] # <<>> /\ selectionMode(request[r][1]) = "new"

\* The ids of the rows of a select's data.
IdsOf(data) == {data[k].id : k \in DOMAIN data}

\* The select of run r is answered without error in this step.
SelectReturnsNow(r) == pc[r] = "select" /\ SelectSucceeded(r)'

\* C17: a run with processNewStudents selects exactly the records whose
\* risk_score is null when the select is answered; a record that has a
\* risk_score then is not among the run's predictions, is in none of its
\* upserts and is not changed by the run.
C17_NewModeSelectsUnscoredOnly ==
    /\ [][\A r \in Runs :
            (NewMode(r) /\ SelectReturnsNow(r)) =>
                IdsOf(students'[r]) = {id \in DOMAIN table : ScoreIsNull(table[id])}]_vars
    /\ [](\A r \in Runs :
            NewMode(r) =>
                /\ \A k \in DOMAIN students[r] : ScoreIsNull(students[r][k])
                /\ IdsOf(predictions[r]) \subseteq IdsOf(students[r])
                /\ \A j \in UpsertIndexes(r) : calls[r][j].ids \subseteq IdsOf(students[r]))
    /\ [][\A r \in Runs :
            NewMode(r) =>
                \A id \in DOMAIN table :
                    id \notin IdsOf(students[r]) => table'[id] = table[id]]_vars

\* A run with processNewStudents has ended with its batches persisted while
\* the store held a scored record: the run selected every other record and
\* not that one.
C17_Witness ==
    \E r \in Runs :
        /\ NewMode(r)
        /\ pc[r] = "done"
        /\ SelectSucceeded(r)
        /\ \A j \in UpsertIndexes(r) : calls[r][j].outcome = "ok"
        /\ Len(students[r]) > batchSize
        /\ Len(students[r]) < Cardinality(DOMAIN table)
        /\ \A id \in DOMAIN table : ~ScoreIsNull(table[id])

(***************************************************************************)
(* Overlapping runs and direct edits, under SpecOverlap.                   *)
(***************************************************************************)
\* The pending upsert of run r is answered without error in this step.
UpsertReturnsNow(r) ==
    /\ pc[r] = "upsert"
    /\ calls'[r][Len(calls[r])].outcome = "ok"

\* Both runs hold record id in their selection.
BothSelected(id) ==
    \A r \in OverlappingRuns : id \in IdsOf(students[r])

\* What run r predicted for record id.
PredictionOf(r, id) ==
    predictions[r][CHOOSE n \in DOMAIN predictions[r] : predictions[r][n].id = id].prediction

\* C18: two runs that overlap are not fenced against each other.  The
\* select of a run with processNewStudents returns every record that is
\* unscored at that moment, also one the other run has selected and not yet
\* written; and an upsert that succeeds stores the run's own values for
\* every record of the batch, whatever another run has stored for them
\* since the select: the later write wins.
C18_OverlappingRunsNotFenced ==
    /\ [][\A r \in OverlappingRuns :
            (NewMode(r) /\ SelectReturnsNow(r)) =>
                \A id \in DOMAIN table :
                    ScoreIsNull(table[id]) => id \in IdsOf(students'[r])]_vars
    /\ [][\A r \in OverlappingRuns :
            UpsertReturnsNow(r) =>
                \A id \in BatchIds(r, i[r]) : Written(r, id)']_vars

\* Both runs selected record 1 while it was unscored, predicted different
\* values for it (it was edited between the two selects), and both upserts
\* succeeded: the store holds the values of r1, whose write came last.
C18_Witness ==
    /\ BothSelected(1)
    /\ \A r \in OverlappingRuns :
          /\ NewMode(r)
          /\ ScoreIsNull(students[r][1])
          /\ pc[r] = "done"
          /\ \E j \in UpsertIndexes(r) :
                1 \in calls[r][j].ids /\ calls[r][j].outcome = "ok"
    /\ PredictionOf("r1", 1) # PredictionOf("r2", 1)
    /\ Written("r1", 1)

\* The raw attributes of a row.
RawOf(row) ==
    [row EXCEPT !.risk_score = Null, !.risk_level = Null,
                !.prediction_factors = Null]

\* The score columns of a row.
ScoreOf(row) == <<row.risk_score, row.risk_level, row.prediction_factors>>

\* The stored score of record id is not the one predictDropoutRisk gives on
\* the record's current attributes.
Stale(id) ==
    /\ ~ScoreIsNull(table[id])
    /\ table[id].risk_score # Number(predictDropoutRisk(table[id]).risk_score)

\* C19: editing the raw attributes of a scored record leaves its risk_score
\* and risk_level as they were; a run with processNewStudents whose select
\* is answered while the record has a score does not select it, and a run
\* writes only records it selected; so the score of a scored record changes
\* only in an upsert of a run that holds it in its selection, and it can
\* stay different from the prediction on the current attributes for ever
\* unless a studentIds run names the record.
C19_EditedScoreStaysStale ==
    /\ [][\A id \in DOMAIN table :
            RawOf(table'[id]) # RawOf(table[id]) =>
                ScoreOf(table'[id]) = ScoreOf(table[id])]_vars
    /\ [][\A r \in OverlappingRuns :
            (NewMode(r) /\ SelectReturnsNow(r)) =>
                \A id \in DOMAIN table :
                    ~ScoreIsNull(table[id]) => id \notin IdsOf(students'[r])]_vars
    /\ [][\A id \in DOMAIN table :
            (~ScoreIsNull(table[id]) /\ ScoreOf(table'[id]) # ScoreOf(table[id])) =>
                \E r \in OverlappingRuns :
                    /\ UpsertReturnsNow(r)
                    /\ id \in BatchIds(r, i[r])
                    /\ id \in IdsOf(students[r])
                    /\ NewMode(r) =>
                           \E k \in DOMAIN students[r] :
                               students[r][k].id = id /\ ScoreIsNull(students[r][k])]_vars

\* Record 1 has a score, was edited since and is stale, and a run with
\* processNewStudents has ended, its select having succeeded, without
\* selecting it.
C19_Witness ==
    /\ Stale(1)
    /\ table[1].attendance_percentage # Profiles[1].attendance_percentage
    /\ \E r \in OverlappingRuns :
          /\ NewMode(r)
          /\ pc[r] = "done"
          /\ SelectSucceeded(r)
          /\ Len(students[r]) > 0
          /\ 1 \notin IdsOf(students[r])

(***************************************************************************)
(* Properties of handleFileUpload, under SpecUpload.                       *)
(***************************************************************************)
InvokeIndexes == {j \in DOMAIN upload.calls : upload.calls[j].op = "invoke"}

\* The number of insert batches the parsed records make.
NumInsertBatches ==
    (Len(upload.students) + uploadBatchSize - 1) \div uploadBatchSize

\* The calls before the one at j are the inserts of all batches in order,
\* each answered.
AllInsertsAttemptedBefore(j) ==
    /\ j = NumInsertBatches + 1
    /\ \A k \in 1..(j - 1) :
          /\ upload.calls[k].op = "insert"
          /\ upload.calls[k].from = (k - 1) * uploadBatchSize
          /\ upload.calls[k].count =
                 Len(uploadBatchAt(upload.students, (k - 1) * uploadBatchSize))
          /\ upload.calls[k].outcome \in {"ok", "error"}

\* C20: in an upload the prediction function is invoked with
\* processNewStudents = true, once, and only after every insert batch has
\* been attempted, whether it succeeded or failed; the function's handler
\* runs on no other request; and when the invocation fails the upload still
\* ends in status 'success'.
C20_InvokeAfterInsertsAndTolerated ==
    /\ \A j \in InvokeIndexes :
          /\ j = Len(upload.calls)
          /\ upload.calls[j].body.processNewStudents = Bool(TRUE)
          /\ AllInsertsAttemptedBefore(j)
    /\ \A r \in Runs :
          request[r] # <<>> =>
              /\ request[r][1] = InvokeBody
              /\ upload.pc = "invoke"
    /\ (upload.pc = "end" /\ InvokeIndexes # {}) =>
          uploadStatus.status = "success"

\* An upload of two batches, of which one insert failed, has ended after a
\* failed invocation, in status 'success'.
C20_Witness ==
    /\ upload.pc = "end"
    /\ Len(upload.calls) = 3
    /\ upload.calls[1].outcome = "error"
    /\ upload.calls[2].outcome = "ok"
    /\ upload.calls[3].op = "invoke"
    /\ upload.calls[3].outcome = "error"
    /\ uploadStatus.status = "success"

(***************************************************************************)
(* The batch loop, under Spec.                                             *)
(***************************************************************************)
\* The ids of the selected records at positions lo..hi of the selection.
SelectedIdsAt(r, lo, hi) ==
    {students[r][k].id : k \in lo..MinOf(hi, Len(students[r]))}

\* ceil(n / batchSize)
CeilBatches(n) == (n + batchSize - 1) \div batchSize

\* C23: for a run over n selected records the updates are split in
\* selection order into ceil(n/50) consecutive batches of at most 50 records,
\* every batch but the last having exactly 50; the batches are upserted one
\* at a time in that order, batch k+1 only after batch k has returned, and
\* each selected record is in exactly one upsert.
C23_BatchesPartitionSelection ==
    \A r \in Runs :
        SelectSucceeded(r) =>
            /\ \A j \in UpsertIndexes(r) :
                  /\ j >= 2
                  /\ j <= CeilBatches(Len(students[r])) + 1
                  /\ calls[r][j].ids =
                         SelectedIdsAt(r, (j - 2) * batchSize + 1, (j - 1) * batchSize)
                  /\ Cardinality(calls[r][j].ids) <= batchSize
                  /\ j < CeilBatches(Len(students[r])) + 1 =>
                         Cardinality(calls[r][j].ids) = batchSize
                  /\ j < Len(calls[r]) => calls[r][j].outcome # "pending"
            /\ \A j \in 2..Len(calls[r]) : j \in UpsertIndexes(r)
            /\ pc[r] = "done" =>
                  /\ Cardinality(UpsertIndexes(r)) = CeilBatches(Len(students[r]))
                  /\ \A k \in DOMAIN students[r] :
                        Cardinality({j \in UpsertIndexes(r) :
                                        students[r][k].id \in calls[r][j].ids}) = 1

\* A run over 101 records has ended after upserts of 50, 50 and 1 records.
C23_Witness ==
    \E r \in Runs :
        /\ pc[r] = "done"
        /\ SelectSucceeded(r)
        /\ Len(students[r]) = 2 * batchSize + 1
        /\ Len(calls[r]) = 4
        /\ Cardinality(calls[r][2].ids) = batchSize
        /\ Cardinality(calls[r][3].ids) = batchSize
        /\ Cardinality(calls[r][4].ids) = 1

(***************************************************************************)
(* calculateFinancialRisk, under SpecPredict.                              *)
(***************************************************************************)
\* The income term of the documented table, in hundredths.
IncomeCents(income) ==
    IF income < 200000 THEN 30
    ELSE IF income < 500000 THEN 10
    ELSE 0

\* C24: for every input with known family income calculateFinancialRisk is
\* min(1.0, 0.6 if fee default + 0.2 if no scholarship + income term), the
\* income term being 0.3 below 200,000, 0.1 from 200,000 to below 500,000
\* and 0 otherwise; with fee default, no scholarship and income below
\* 200,000 the result is exactly 1.0.
C24_FinancialRiskClamped ==
    (Returned /\ arg.family_income.kind = "number") =>
        /\ Round2(risks[1].financial) =
               MinOf(100, Cents(arg.fee_default, 60) + Cents(~arg.scholarship, 20)
                          + IncomeCents(arg.family_income.val))
        /\ (arg.fee_default /\ ~arg.scholarship /\ arg.family_income.val < 200000) =>
               risks[1].financial = c1

\* The three terms are all present and the result is 1.0.
C24_Witness ==
    /\ Returned
    /\ arg.family_income = Number(199999)
    /\ arg.fee_default
    /\ ~arg.scholarship
    /\ risks[1].financial = c1

\* The upload has issued an insert.
ReachedInsertPhase ==
    \E j \in DOMAIN upload.calls : upload.calls[j].op = "insert"

\* C25: in any upload that reaches the insert phase the processedCount
\* reported at the end is the number of parsed records, however many insert
\* batches failed: a failed batch is counted as processed, and the upload
\* ends in 'success' even when every insert batch failed.
C25_FailedInsertsCountedAsProcessed ==
    (upload.pc = "end" /\ ReachedInsertPhase) =>
        /\ uploadStatus.status = "success"
        /\ uploadStatus.processedCount = Number(Len(upload.students))
        /\ uploadStatus.totalCount = Number(Len(upload.students))
        /\ upload.processedCount = Len(upload.students)

\* An upload of two batches has ended in 'success' with 51 records reported
\* as processed, both inserts having failed: the store is still empty.
C25_Witness ==
    /\ upload.pc = "end"
    /\ Len(upload.calls) = 3
    /\ upload.calls[1].op = "insert" /\ upload.calls[1].outcome = "error"
    /\ upload.calls[2].op = "insert" /\ upload.calls[2].outcome = "error"
    /\ uploadStatus.status = "success"
    /\ uploadStatus.processedCount = Number(uploadBatchSize + 1)
    /\ table = <<>>

(***************************************************************************)
(* The studentIds mode, under Spec.                                        *)
(***************************************************************************)
\* The request of run r names ids.
IdsMode(r) == request[r] # <<>> /\ selectionMode(request[r][1]) = "ids"

\* The ids the request of run r names.
RequestedIds(r) ==
    {request[r][1].studentIds.val[k] : k \in DOMAIN request[r][1].studentIds.val}

\* C26: in studentIds mode the select returns the records whose id is among
\* the ids requested and totalCount is the number of those records, not the
\* number of ids requested: an id that matches no record is ignored, and no
\* response tells it from one that was scored.
C26_TotalCountsReturnedRecords ==
    \A r \in Runs :
        (IdsMode(r) /\ SelectSucceeded(r)) =>
            /\ IdsOf(students[r]) = RequestedIds(r) \cap DOMAIN table
            /\ Len(students[r]) = Cardinality(RequestedIds(r) \cap DOMAIN table)
            /\ pc[r] = "done" =>
                  /\ response[r].kind = "summary"
                  /\ response[r].totalCount = Len(students[r])
                  /\ response[r].processedCount <= response[r].totalCount

\* A run over the ids 2 and 0 has reported processedCount = totalCount = 1:
\* the id 0, which names no record, was requested and never scored.
C26_Witness ==
    \E r \in Runs :
        /\ IdsMode(r)
        /\ pc[r] = "done"
        /\ RequestedIds(r) = {0, 2}
        /\ 0 \notin DOMAIN table
        /\ response[r].kind = "summary"
        /\ response[r].processedCount = 1
        /\ response[r].totalCount = 1

(***************************************************************************)
(* What a run writes, under SpecOverlap.                                   *)
(***************************************************************************)
\* This step is a step of a request handler, not a direct edit.
HandlerStep == pc' # pc \/ calls' # calls

\* The record selected at position k by run r holds, in the store, the
\* score predictDropoutRisk gives on the attributes read at selection.
HoldsScoreOfSelection(r, k, tbl) ==
    ScoreOf(tbl[students[r][k].id]) =
        <<Number(predictDropoutRisk(students[r][k]).risk_score),
          Str(predictDropoutRisk(students[r][k]).risk_level),
          Obj(predictDropoutRisk(students[r][k]).prediction_factors)>>

\* C27: a run writes only risk_score, risk_level and prediction_factors of
\* records it selected.  No step of a run changes a raw attribute of any
\* record, also when a raw attribute was edited between the run's select
\* and its upsert: the edit is kept, and the score written is the one
\* computed from the attributes read at selection.
C27_RunWritesScoreColumnsOnly ==
    /\ [][HandlerStep =>
            \A id \in DOMAIN table :
                /\ RawOf(table'[id]) = RawOf(table[id])
                /\ table'[id] # table[id] =>
                       \E r \in OverlappingRuns :
                           /\ UpsertReturnsNow(r)
                           /\ id \in BatchIds(r, i[r])
                           /\ id \in IdsOf(students[r])]_vars
    /\ [][\A r \in OverlappingRuns :
            UpsertReturnsNow(r) =>
                \A k \in DOMAIN students[r] :
                    (k > i[r] /\ k <= i[r] + batchSize) =>
                        HoldsScoreOfSelection(r, k, table')]_vars

\* Record 1 was edited between the select and the upsert of a run that has
\* ended: the store holds the edited attendance, and the score computed
\* from the attendance the run had read.
C27_Witness ==
    \E r \in OverlappingRuns :
        /\ pc[r] = "done"
        /\ 1 \in IdsOf(students[r])
        /\ \E j \in UpsertIndexes(r) :
              1 \in calls[r][j].ids /\ calls[r][j].outcome = "ok"
        /\ students[r][1].attendance_percentage # table[1].attendance_percentage
        /\ table[1].attendance_percentage = Profiles[4].attendance_percentage
        /\ HoldsScoreOfSelection(r, 1, table)
        /\ Stale(1)

(***************************************************************************)
(* Overlapping runs while no raw attribute is edited, under                *)
(* SpecOverlapUnedited.                                                    *)
(***************************************************************************)
\* The score columns predictDropoutRisk gives on the row's attributes.
PredictedScoreOf(row) ==
    <<Number(predictDropoutRisk(row).risk_score),
      Str(predictDropoutRisk(row).risk_level),
      Obj(predictDropoutRisk(row).prediction_factors)>>

\* An upsert of a run in flight that carried record id was answered
\* without error.
WrittenByRunInFlight(id) ==
    \E r \in OverlappingRuns : \E j \in UpsertIndexes(r) :
        calls[r][j].outcome = "ok" /\ id \in calls[r][j].ids

\* C28: while no raw attribute is edited, whatever the interleaving of the
\* overlapping runs and whichever upserts fail, a record changes only in an
\* upsert that succeeds and carries it, and then holds the score, level and
\* factors predictDropoutRisk gives on its attributes; so a record written
\* at least once holds them whichever write landed last, and a record
\* never written holds the score fields it had before.
C28_UneditedRecordsEndWithOwnPrediction ==
    /\ [](\A id \in DOMAIN table :
            /\ RawOf(table[id]) = RawOf(BacklogTable[id])
            /\ \/ ScoreOf(table[id]) = ScoreOf(BacklogTable[id])
               \/ ScoreOf(table[id]) = PredictedScoreOf(table[id])
            /\ WrittenByRunInFlight(id) =>
                   ScoreOf(table[id]) = PredictedScoreOf(table[id]))
    /\ [][\A id \in DOMAIN table :
            table'[id] # table[id] =>
                /\ \E r \in OverlappingRuns :
                       UpsertReturnsNow(r) /\ id \in BatchIds(r, i[r])
                /\ ScoreOf(table'[id]) = PredictedScoreOf(table'[id])]_vars

\* Both runs have ended; each wrote record 1, the first run's upsert of
\* record 2 failed or did not carry it, and a record outside both
\* selections holds the score it had before.
C28_Witness ==
    /\ \A r \in OverlappingRuns :
          /\ pc[r] = "done"
          /\ \E j \in UpsertIndexes(r) :
                calls[r][j].outcome = "ok" /\ 1 \in calls[r][j].ids
    /\ ~WrittenByRunInFlight(2)
    /\ ScoreIsNull(table[2])
    /\ ScoreOf(table[1]) = PredictedScoreOf(table[1])
    /\ ~ScoreIsNull(table[Backlog + 1])
    /\ table[Backlog + 1] = BacklogTable[Backlog + 1]

(***************************************************************************)
(* The lowest score and the pages' tests of risk_score, under SpecPredict. *)
(***************************************************************************)
\* The score columns the store holds once the returned prediction is
\* written.
ScoredRow ==
    [risk_score |-> Number(ret[1].risk_score),
     risk_level |-> Str(ret[1].risk_level),
     prediction_factors |-> Obj(ret[1].prediction_factors)]

\* C30: for every valid record the risk_score predictDropoutRisk returns is
\* at least 0.07, so the row that holds it passes each test of risk_score
\* the pages make: the badge, the explanation and the export all show its
\* percentage, never the text of an unanalysed row.
C30_ScoredRecordShownAsAnalysed ==
    (Returned /\ ValidRecord(arg)) =>
        /\ ret[1].risk_score >= 7
        /\ displayText(riskScoreProp(ScoredRow)) =
               [shown |-> TRUE, percent |-> ret[1].risk_score]
        /\ getRiskExplanation(ScoredRow) =
               [shown |-> TRUE, percent |-> ret[1].risk_score]
        /\ exportToCSV(ScoredRow) =
               [shown |-> TRUE, percent |-> ret[1].risk_score]

\* The valid record with every calculator at its lowest has been scored
\* 0.07 and is shown with 7%.
C30_Witness ==
    /\ Returned
    /\ ValidRecord(arg)
    /\ RisksAre(10, 10, 0, 10, 10, 0)
    /\ ret[1].risk_score = 7
    /\ displayText(riskScoreProp(ScoredRow)) = [shown |-> TRUE, percent |-> 7]

(***************************************************************************)
(* The statuses of one upload, under SpecUploadLive.                       *)
(***************************************************************************)
\* The statuses the page has held since the upload began, 'idle' first.
StatusPath ==
    <<"idle">> \o [k \in DOMAIN upload.statuses |-> upload.statuses[k].status]

ProgressPath ==
    <<c0>> \o [k \in DOMAIN upload.statuses |-> upload.statuses[k].progress]

SameNumber(x, y) == ~FLess(x, y) /\ ~FLess(y, x)

StepsAsStated ==
    {<<"idle", "uploading">>, <<"uploading", "processing">>,
     <<"processing", "processing">>, <<"processing", "success">>,
     <<"processing", "error">>, <<"idle", "error">>}

\* A file that cannot be read takes the status from 'uploading' to 'error'.
StepsAsCoded == StepsAsStated \cup {<<"uploading", "error">>}

StatusMovesWithin(steps) ==
    /\ \A k \in 1..(Len(StatusPath) - 1) :
          <<StatusPath[k], StatusPath[k + 1]>> \in steps
    /\ uploadStatus.status = StatusPath[Len(StatusPath)]
    /\ SameNumber(uploadStatus.progress, ProgressPath[Len(ProgressPath)])

ProgressAsStated ==
    /\ \A k \in 1..(Len(StatusPath) - 1) :
          StatusPath[k + 1] \notin {"success", "error"} =>
              ~FLess(ProgressPath[k + 1], ProgressPath[k])
    /\ \A k \in DOMAIN StatusPath :
          /\ SameNumber(ProgressPath[k], FInt(100)) <=> StatusPath[k] = "success"
          /\ StatusPath[k] = "error" => SameNumber(ProgressPath[k], c0)

UploadEnds ==
    (uploadStatus.status \in {"uploading", "processing"})
        ~> (uploadStatus.status \in {"success", "error"})

\* C29 as stated: an upload started from 'idle' moves only idle ->
\* uploading -> processing -> success or error, or idle -> error, and always
\* reaches success or error; progress never decreases before a terminal
\* status, is 100 exactly at 'success' and 0 at 'error'.
C29_StatusPathAsStated ==
    /\ [](StatusMovesWithin(StepsAsStated) /\ ProgressAsStated)
    /\ UploadEnds

\* C29: an upload started from 'idle' moves only idle -> uploading ->
\* processing -> success or error, or idle -> uploading -> error when the
\* file cannot be read, or idle -> error for a file of a wrong type, and
\* always reaches success or error; progress never decreases before a
\* terminal status, is 100 exactly at 'success' and 0 at 'error'.
C29_StatusPathAsCoded ==
    /\ [](StatusMovesWithin(StepsAsCoded) /\ ProgressAsStated)
    /\ UploadEnds

\* An upload of two batches has ended in 'success' through 'uploading' and
\* five statuses 'processing', the progress rising from 20 to 100.
C29_Witness ==
    /\ upload.pc = "end"
    /\ Len(upload.students) = uploadBatchSize + 1
    /\ StatusPath = <<"idle", "uploading", "processing", "processing",
                      "processing", "processing", "processing", "success">>
    /\ FLess(ProgressPath[4], ProgressPath[5])
    /\ FLess(ProgressPath[5], ProgressPath[6])
    /\ SameNumber(ProgressPath[6], FInt(90))
    /\ SameNumber(uploadStatus.progress, FInt(100))

(***************************************************************************)
(* The rows parseCSVContent keeps, under SpecParse, and the upload of a    *)
(* file without one, under SpecUpload.                                     *)
(***************************************************************************)
\* The lines of a file that are not blank: the header row, then the data
\* rows.
LinesOf(content) == SelectSeq(content, LAMBDA line : line # BlankLine)

\* The cells of a data row under the headers that map to field.
CellsOf(headers, row, field) ==
    {x \in DOMAIN headers :
        /\ mappedField(toLowerCase(headers[x].text)) = field
        /\ x <= Len(row)
        /\ NonEmpty(row[x])}

\* The row has a field for every header, and none of name, email,
\* student_id and department is empty after the mapping.
Usable(headers, row) ==
    /\ Len(row) >= Len(headers)
    /\ \A field \in {"name", "email", "student_id", "department"} :
          CellsOf(headers, row, field) # {}

UsableRows(content) ==
    IF Len(LinesOf(content)) < 2 THEN <<>>
    ELSE SelectSeq(SubSeq(LinesOf(content), 2, Len(LinesOf(content))),
                   LAMBDA row : Usable(LinesOf(content)[1], row))

\* The student holds the last cell of the row that maps to field.
HoldsCell(student, headers, row, field) ==
    /\ field \in DOMAIN student
    /\ \E x \in CellsOf(headers, row, field) :
          /\ \A y \in CellsOf(headers, row, field) : y <= x
          /\ student[field] = row[x]

\* C21: parseCSVContent drops a data row that has fewer fields than the
\* header row, or in which name, email, student_id or department is empty
\* after the header mapping, whatever its other fields hold; it does not
\* stop there: the students it returns are the other rows of the file, one
\* for one and in file order.
C21_UsableRowsEmittedInOrder ==
    /\ ret # <<>> => (ret[1].throws <=> Len(LinesOf(arg)) < 2)
    /\ (ret # <<>> /\ ~ret[1].throws) =>
        /\ Len(ret[1].students) = Len(UsableRows(arg))
        /\ \A k \in DOMAIN ret[1].students :
              \A field \in {"name", "email", "student_id", "department"} :
                  HoldsCell(ret[1].students[k], LinesOf(arg)[1],
                            UsableRows(arg)[k], field)

\* A file of the full header, a row without a name, a row one cell short
\* and the complete row of student 3 has been parsed into that student
\* alone.
C21_Witness ==
    /\ ret # <<>>
    /\ arg = <<fileHeaders,
               [fileRow(1, Profiles[1]) EXCEPT ![1] = Text("")],
               SubSeq(fileRow(2, Profiles[2]), 1, Len(fileHeaders) - 1),
               fileRow(3, Profiles[3])>>
    /\ ~ret[1].throws
    /\ Len(ret[1].students) = 1
    /\ ret[1].students[1].student_id = Text("CS3")
    /\ ret[1].students[1].attendance_percentage =
           Profiles[3].attendance_percentage

\* C22: when a file has no usable record (it has no data row, or every
\* data row is dropped), the upload ends in status 'error' as soon as the
\* file is read: no insert is issued and the prediction function is not
\* invoked.
C22_NoUsableRecordIsFatal ==
    (upload.pc # "idle" /\ UsableRows(upload.content) = <<>>) =>
        /\ upload.pc \in {"read", "end"}
        /\ upload.pc = "end" => uploadStatus.status = "error"
        /\ upload.calls = <<>>
        /\ \A r \in Runs : pc[r] = "idle" /\ calls[r] = <<>>

\* The upload of a file of a valid type whose two data rows are both
\* dropped has ended in 'error' after the status 'processing'.
C22_Witness ==
    /\ upload.pc = "end"
    /\ upload.content = FileOfDroppedRows
    /\ Len(LinesOf(upload.content)) = 3
    /\ UsableRows(upload.content) = <<>>
    /\ StatusPath = <<"idle", "uploading", "processing", "error">>
    /\ upload.calls = <<>>

====
